---- MODULE Spec2Model ----
(***************************************************************************)
(* The campaign send engine of listmonk: the manager's pipes               *)
(* (internal/manager/pipe.go, src/unnamed/part_000), with the dispatcher,  *)
(* the scan routine, the workers, the store and the admin API that drive   *)
(* them; the SMTP messenger's Push (internal/messenger/email, kept in      *)
(* src/internal/migrations/v5.4.0.go); the bounce mailbox scanner          *)
(* (internal/bounce/mailbox/pop.go) and Core.RecordBounce                  *)
(* (internal/core/bounces.go).                                             *)
(*                                                                         *)
(* Time is a discrete clock `now` of ticks; TicksPerHour ticks make one    *)
(* UTC hour.  Every sleep of the code is a guard now >= wake, and every    *)
(* duration is a whole number of ticks, computed with the code's integer   *)
(* arithmetic.  Calls to the store and to the notifier succeed.            *)
(***************************************************************************)
EXTENDS Integers, Sequences, FiniteSets, TLC

\* ---------------------------------------------------------------- bounds
\* Eligible subscribers of every campaign: ids 1..NumSubs.
NumSubs == 3
\* The clock stops at MaxTime ticks.
MaxTime == 2
\* The clock of the longer runs (RetrySpec) stops at LongTime ticks.
LongTime == 4
\* Ticks per UTC hour.
TicksPerHour == 2
\* Pipes the manager creates in one behaviour.
MaxPipes == 2
\* Concurrent callers of Emailer.Push.
NumPushers == 2
\* SMTP servers of the messenger.
NumServers == 1
\* Messages in the bounce mailbox.
MaxMails == 2
\* Lines of a bounce message.
MaxLines == 2
\* Capacity of the channel that takes the bounces.
ChCap == 1
\* Pieces of a messenger name in a settings request.
NameLen == 2
\* SMTP blocks, and postback messengers, of a settings request.
MaxBlocks == 2

\* ---------------------------------------------------------------- config
\* m.cfg.BatchSize
BatchSize == 2
\* m.cfg.Concurrency: the number of workers.
Concurrency == 1
\* m.cfg.SlidingWindowRate
SlidingWindowRate == 1
\* m.cfg.SlidingWindowDuration, in ticks
SlidingWindowDuration == 2
\* max_conns of every SMTP server (smtppool.Opt.MaxConns)
MaxConns == 1

PipeIds == 1..MaxPipes
Subs == 1..NumSubs
Workers == 1..Concurrency
\* The workers of a manager configured with one worker more.
MoreWorkers == 1..(Concurrency + 1)
Pushers == 1..NumPushers
Servers == 1..NumServers
NoPipe == 0
NoMsg == [pipe |-> 0, sub |-> 0]
NoSched == [pipe |-> 0, sub |-> 0, at |-> 0]

\* make(chan scheduledMessage, m.cfg.BatchSize*2)
SchedQCap == BatchSize * 2
\* campMsgQ: bounded channel of size BatchSize * 2 (spec section 5).
CampMsgQCap == BatchSize * 2

VARIABLES
    \* ---- clock
    now,
    \* ---- configuration, fixed by Init
    cfgMaxSendErrors,   \* m.cfg.MaxSendErrors
    cfgSlidingWindow,   \* m.cfg.SlidingWindow
    \* ---- store
    campStatus,         \* campaigns.status
    campQuota,          \* campaigns.daily_quota (0: NULL)
    campMessenger,      \* "email", or why newPipe fails for the campaign
    badSubs,            \* the subscribers whose message fails to render
    campSendInterval,   \* campaigns.send_interval (NoInterval: NULL)
    campTotal,          \* the campaign's eligible subscribers: ids 1..campTotal
    campCursor,         \* last subscriber id handed out by NextSubscribers
    campSent,           \* campaigns.sent
    campLastSub,        \* campaigns.last_subscriber_id
    hourlySent,         \* campaign_send_quota: camp -> absolute hour -> sent_count
    notifs,             \* notifications sent to the admin
    \* ---- manager
    pipes,              \* m.pipes: camp -> pipe id (NoPipe: no entry)
    nextPipes,          \* m.nextPipes
    campMsgQ,           \* m.campMsgQ
    slidingStart,       \* m.slidingStart
    slidingCount,       \* m.slidingCount
    panicked,           \* the process has died of a runtime panic
    \* ---- pipes
    pipe,               \* pipe id -> the pipe's fields
    waiter,             \* pipe id -> the goroutine of newPipe: wg.Wait(); cleanup()
    sched,              \* pipe id -> the runScheduler goroutine
    retry,              \* pipe id -> the hourly retry goroutines
    \* ---- tasks
    disp,               \* the dispatcher, inside or outside NextSubscribers
    worker,             \* worker -> the message it is pushing
    \* ---- history
    pushes,             \* camp -> subscriber -> successful Push calls
    pushCalls,          \* camp -> Push calls
    cleanups,           \* pipe id -> runs of cleanup
    released,           \* pipe id -> absolute hour -> messages forwarded from schedQ
    dispatched,         \* tick -> messages put on campMsgQ (sliding window active)
    \* ---- the SMTP messenger
    srvUsername,        \* server -> Server.Username
    pusher,             \* caller of Push -> its position in Push and its SMTP session
    \* ---- the bounce scanner
    mailbox,            \* the messages on the POP3 server
    scan,               \* POP.Scan: its position, count, id, the Bounce in hand
    ch,                 \* the channel Scan puts the bounces on
    recorded,           \* the rows RecordBounce has written
    \* ---- history
    delivered,          \* ids of the messages whose Bounce was put on ch
    removed,            \* ids of the messages deleted from the server
    \* ---- tasks, statement by statement
    slide,              \* task -> its position in the sliding-window block
    app,                \* the settings handler and the messengers it reloads
    set,                \* the settings request that UpdateSettings sanitizes
    closing             \* Manager.Close: "no", "stopped" (pipes told to stop), "closed"

vars == << now, cfgMaxSendErrors, cfgSlidingWindow,
           campStatus, campQuota, campMessenger, badSubs, campSendInterval, campTotal,
           campCursor, campSent, campLastSub,
           hourlySent, notifs,
           pipes, nextPipes, campMsgQ, slidingStart, slidingCount, panicked,
           pipe, waiter, sched, retry, disp, worker,
           pushes, pushCalls, cleanups, released, dispatched,
           srvUsername, pusher, mailbox, scan, ch, recorded, delivered, removed,
           slide, app, set, closing >>

cfgVars == << cfgMaxSendErrors, cfgSlidingWindow, campQuota, campMessenger, badSubs,
             campSendInterval, campTotal >>
storeVars == << campStatus, campCursor, campSent, campLastSub, hourlySent, notifs >>
histVars == << pushes, pushCalls, cleanups, released, dispatched >>
mailVars == << srvUsername, pusher >>
bounceVars == << mailbox, scan, ch, recorded, delivered, removed >>
sideVars == << slide, app, set, closing >>
\* The messenger, the bounce scanner and the statement-level tasks, seen from
\* the engine.
ioVars == << mailVars, bounceVars, sideVars >>
\* The engine, seen from the messenger.
engineVars == << now, cfgVars, storeVars, pipes, nextPipes, campMsgQ, slidingStart,
                slidingCount, panicked, pipe, waiter, sched, retry, disp, worker,
                histVars >>

Camps == DOMAIN campStatus
ClockEnd == IF LongTime >= MaxTime THEN LongTime ELSE MaxTime
Ticks == 0..ClockEnd
Hours == 0..(ClockEnd \div TicksPerHour)

\* time.Now().UTC() as an absolute hour, and now.Hour()
AbsHour(t) == t \div TicksPerHour
HourOfDay(t) == AbsHour(t) % 24
\* now.Truncate(time.Hour).Add(time.Hour)
NextHourStart(t) == (AbsHour(t) + 1) * TicksPerHour

Max(a, b) == IF a >= b THEN a ELSE b
Min(a, b) == IF a <= b THEN a ELSE b

\* campaigns.send_interval: NULL, or a window of UTC hours of the day, from
\* `from` up to and excluding `to`.
NoInterval == [from |-> 0, to |-> 0]
Windows == {[from |-> 0, to |-> 1], [from |-> 1, to |-> 2]}
\* The time t lies inside the campaign's window (always, when none is set).
InWindow(c, t) ==
    \/ campSendInterval[c] = NoInterval
    \/ /\ campSendInterval[c].from <= HourOfDay(t)
       /\ HourOfDay(t) < campSendInterval[c].to

\* ------------------------------------------------------------ the store
\* store.NextSubscribers(campID, limit): at most `limit` not-yet-processed
\* subscribers, ascending by id; every fetch hands out a new batch.
StoreNextSubscribers(c, limit) ==
    LET n == Min(Max(limit, 0), campTotal[c] - campCursor[c])
    IN  [k \in 1..n |-> campCursor[c] + k]

\* store.GetCampaignHourlySent(campID, now)
GetCampaignHourlySent(c, t) == hourlySent[c][AbsHour(t)]

\* ------------------------------------------------------------ the pipe
NilPipe == [camp |-> 0, wg |-> 0, sent |-> 0, lastID |-> 0, errors |-> 0,
            stopped |-> FALSE, withErrors |-> FALSE,
            schedQ |-> << >>, schedClosed |-> FALSE,
            scheduled |-> 0, scheduledHour |-> 0]

\* p := &pipe{camp: c, ...}; p.wg.Add(1)
NewPipeValue(c) == [NilPipe EXCEPT !.camp = c, !.wg = 1]

\* hasQuota := p.camp.DailyQuota.Valid && p.camp.DailyQuota.Int > 0
HasQuota(c) == campQuota[c] > 0
\* perHour := (daily + 23) / 24
PerHour(c) == (campQuota[c] + 23) \div 24

\* hasSliding := cfg.SlidingWindow && cfg.SlidingWindowRate > 0 &&
\*               cfg.SlidingWindowDuration.Seconds() > 1
HasSliding == cfgSlidingWindow /\ SlidingWindowRate > 0 /\ SlidingWindowDuration > 1

\* wg.Done() on the pipe value pv: the counter drops; reaching zero releases
\* the wg.Wait() of newPipe's goroutine; dropping below zero panics
\* ("sync: negative WaitGroup counter").
WgDone(p, pv) ==
    /\ pipe' = [pipe EXCEPT ![p] = [pv EXCEPT !.wg = @ - 1]]
    /\ waiter' = [waiter EXCEPT ![p] =
                     IF pv.wg - 1 = 0 /\ @ = "waiting" THEN "released" ELSE @]
    /\ panicked' = (pv.wg - 1 < 0)

\* Stop without the test for a pipe that is already stopped.
StopUnguarded(pv, withErrors) ==
    [pv EXCEPT !.withErrors = IF withErrors THEN TRUE ELSE @,
               !.stopped = TRUE]

\* Stop(withErrors)
Stop(pv, withErrors) ==
    IF pv.stopped THEN pv
    ELSE [pv EXCEPT !.withErrors = IF withErrors THEN TRUE ELSE @,
                    !.stopped = TRUE]

\* OnError with the threshold test off by one (count <= MaxSendErrors).
OnErrorOffByOne(pv) ==
    IF cfgMaxSendErrors < 1 THEN pv
    ELSE LET counted == [pv EXCEPT !.errors = @ + 1]
         IN  IF counted.errors <= cfgMaxSendErrors THEN counted
             ELSE Stop(counted, TRUE)

\* OnError(): count the error and stop the pipe at the threshold.
OnError(pv) ==
    IF cfgMaxSendErrors < 1 THEN pv
    ELSE LET counted == [pv EXCEPT !.errors = @ + 1]
         IN  IF counted.errors < cfgMaxSendErrors THEN counted
             ELSE Stop(counted, TRUE)


\* newMessage with wg.Add(1) ahead of the rendering, so that a subscriber
\* whose message fails to render is counted all the same.
newMessageCountingFirst(pv, rendered) == [pv EXCEPT !.wg = @ + 1]

\* newMessage(s): NewCampaignMessage renders the message; an error returns
\* before wg.Add(1), otherwise the waitgroup counts the message.
newMessage(pv, rendered) ==
    IF rendered THEN [pv EXCEPT !.wg = @ + 1] ELSE pv

\* ------------------------------------------------------------ the queues
\* nextPipes: bounded channel sized to the active-campaign count (spec
\* section 5).
NextPipesCap == Cardinality(Camps)

\* select { case nextPipes <- p: default: }
TryRequeue(q, p) == IF Len(q) < NextPipesCap THEN Append(q, p) ELSE q

IdleDisp == [pc |-> "idle", p |-> NoPipe, subs |-> << >>, i |-> 0,
             spacing |-> 0, msg |-> NoSched, wake |-> 0, ret |-> "none"]
IdleSched == [pc |-> "recv", sm |-> NoSched, wake |-> 0]
\* A task outside the sliding-window block: diff and the count it has read.
IdleSlide == [pc |-> "idle", diff |-> 0, count |-> 0, wake |-> 0]
\* The settings handler at rest, the messengers of the start-up registered and
\* open.
IdleApp == [pc |-> "idle", messengers |-> "open", needsRestart |-> FALSE,
            sighup |-> FALSE]
\* No settings request is being handled.
NoRequest == [pc |-> "idle", i |-> 0, has |-> FALSE, names |-> {},
              smtp |-> << >>, messengers |-> << >>]
NoRetry == [sleeping |-> {}, requeued |-> 0]

\* ------------------------------------------------------------ the messenger
\* An e-mail address local@domain; a string without "@" has no domain.
NoAddr == [local |-> "", domain |-> ""]
NoMessage == [From |-> [name |-> "", addr |-> NoAddr], To |-> NoAddr,
              Subject |-> "", ContentType |-> "", Headers |-> << >>]
IdlePusher == [pc |-> "idle", srv |-> 0, m |-> NoMessage, senderEmail |-> NoAddr,
               header |-> << >>, mailFrom |-> NoAddr, rcptTo |-> NoAddr,
               delivered |-> FALSE, err |-> FALSE]
\* No messenger is in use.
MailIdle ==
    /\ srvUsername = [s \in Servers |-> NoAddr]
    /\ pusher = [k \in Pushers |-> IdlePusher]

\* ------------------------------------------------------------ the bounces
NoBounce == [Type |-> "", CampaignUUID |-> "", SubscriberUUID |-> "",
             ClassifyReason |-> ""]
IdleScan == [pc |-> "idle", count |-> 0, id |-> 0, bounce |-> NoBounce,
             marked |-> {}]
\* No bounce mailbox is scanned.
BounceIdle ==
    /\ mailbox = << >>
    /\ scan = IdleScan
    /\ ch = << >>
    /\ recorded = {}
    /\ delivered = {}
    /\ removed = {}

\* ------------------------------------------------------------ Init
InitWith(camps, statuses, quotas, maxErrs, slidings, msgrs, bads, gaps, totals) ==
    /\ now = 0
    /\ badSubs \in bads
    /\ campSendInterval \in [camps -> gaps]
    /\ campTotal \in [camps -> totals]
    /\ cfgMaxSendErrors \in maxErrs
    /\ cfgSlidingWindow \in slidings
    /\ campStatus \in [camps -> statuses]
    /\ campQuota \in [camps -> quotas]
    /\ campMessenger \in [camps -> msgrs]
    /\ campCursor = [c \in camps |-> 0]
    /\ campSent = [c \in camps |-> 0]
    /\ campLastSub = [c \in camps |-> 0]
    /\ hourlySent = [c \in camps |-> [h \in Hours |-> 0]]
    /\ notifs = {}
    /\ pipes = [c \in camps |-> NoPipe]
    /\ nextPipes = << >>
    /\ campMsgQ = << >>
    /\ slidingStart = 0
    /\ slidingCount = 0
    /\ panicked = FALSE
    /\ pipe = [p \in PipeIds |-> NilPipe]
    /\ waiter = [p \in PipeIds |-> "none"]
    /\ sched = [p \in PipeIds |-> [IdleSched EXCEPT !.pc = "none"]]
    /\ retry = [p \in PipeIds |-> NoRetry]
    /\ disp = IdleDisp
    /\ worker = [w \in MoreWorkers |-> NoMsg]
    /\ pushes = [c \in camps |-> [s \in 1..campTotal[c] |-> 0]]
    /\ pushCalls = [c \in camps |-> 0]
    /\ cleanups = [p \in PipeIds |-> 0]
    /\ released = [p \in PipeIds |-> [h \in Hours |-> 0]]
    /\ dispatched = [t \in Ticks |-> 0]
    /\ slide = [t \in PipeIds \cup {NoPipe} |-> IdleSlide]
    /\ app = IdleApp
    /\ set = NoRequest
    /\ closing = "no"

Init ==
    /\ InitWith({1}, {"running"}, {0, 24}, {0, 2}, {FALSE, TRUE},
                {"email", "unknown", "bad_template"}, {{}, {2}}, {NoInterval}, {NumSubs})
    /\ MailIdle
    /\ BounceIdle

\* ------------------------------------------------------------ the clock
TickTo(end) ==
    /\ ~panicked
    /\ now < end
    /\ now' = now + 1
    /\ UNCHANGED << cfgVars, ioVars, storeVars, pipes, nextPipes, campMsgQ, slidingStart,
                    slidingCount, panicked, pipe, waiter, sched, retry, disp,
                    worker, histVars >>

Tick == TickTo(MaxTime)
LongTick == TickTo(LongTime)

\* ------------------------------------------------------------ the admin API
\* Pause: the status becomes paused and the campaign's pipe is stopped.
APIPause(c) ==
    /\ ~panicked
    /\ campStatus[c] \in {"running", "scheduled"}
    /\ campStatus' = [campStatus EXCEPT ![c] = "paused"]
    /\ pipe' = IF pipes[c] = NoPipe THEN pipe
               ELSE [pipe EXCEPT ![pipes[c]] = Stop(@, FALSE)]
    /\ UNCHANGED << now, cfgVars, ioVars, campCursor, campSent, campLastSub, hourlySent,
                    notifs, pipes, nextPipes, campMsgQ, slidingStart, slidingCount,
                    panicked, waiter, sched, retry, disp, worker, histVars >>

\* Cancel: the status becomes cancelled and the campaign's pipe is stopped.
APICancel(c) ==
    /\ ~panicked
    /\ campStatus[c] \in {"running", "scheduled", "paused"}
    /\ campStatus' = [campStatus EXCEPT ![c] = "cancelled"]
    /\ pipe' = IF pipes[c] = NoPipe THEN pipe
               ELSE [pipe EXCEPT ![pipes[c]] = Stop(@, FALSE)]
    /\ UNCHANGED << now, cfgVars, ioVars, campCursor, campSent, campLastSub, hourlySent,
                    notifs, pipes, nextPipes, campMsgQ, slidingStart, slidingCount,
                    panicked, waiter, sched, retry, disp, worker, histVars >>

\* Resume: a paused campaign runs again.
APIResume(c) ==
    /\ ~panicked
    /\ campStatus[c] = "paused"
    /\ campStatus' = [campStatus EXCEPT ![c] = "running"]
    /\ UNCHANGED << now, cfgVars, ioVars, campCursor, campSent, campLastSub, hourlySent,
                    notifs, pipes, nextPipes, campMsgQ, slidingStart, slidingCount,
                    panicked, pipe, waiter, sched, retry, disp, worker, histVars >>

\* ------------------------------------------------------------ newPipe, scan
\* newPipe with the messenger validated after the pipe is built, started and
\* registered.
newPipeValidatingLast(c, p) ==
    /\ pipe' = [pipe EXCEPT ![p] = NewPipeValue(c)]
    /\ sched' = [sched EXCEPT ![p] = IdleSched]
    /\ waiter' = [waiter EXCEPT ![p] = "waiting"]
    /\ pipes' = [pipes EXCEPT ![c] = p]
    /\ campStatus' = IF campMessenger[c] = "unknown"
                     THEN [campStatus EXCEPT ![c] = "cancelled"]
                     ELSE campStatus

\* newPipe(c) for the pipe id p: validate the messenger, compile the
\* template, build the pipe, start runScheduler and the wg.Wait/cleanup
\* goroutine, register the pipe.
newPipe(c, p) ==
    IF campMessenger[c] = "unknown"
    THEN /\ campStatus' = [campStatus EXCEPT ![c] = "cancelled"]
         /\ UNCHANGED << pipe, sched, waiter, pipes >>
    ELSE IF campMessenger[c] = "bad_template"
    THEN UNCHANGED << campStatus, pipe, sched, waiter, pipes >>
    ELSE /\ pipe' = [pipe EXCEPT ![p] = NewPipeValue(c)]
         /\ sched' = [sched EXCEPT ![p] = IdleSched]
         /\ waiter' = [waiter EXCEPT ![p] = "waiting"]
         /\ pipes' = [pipes EXCEPT ![c] = p]
         /\ UNCHANGED campStatus

FreePipes == {p \in PipeIds : waiter[p] = "none"}

\* The scan routine: a running or scheduled campaign with no active pipe
\* gets a pipe, which is pushed into nextPipes.
Scan(c) ==
    /\ ~panicked
    /\ campStatus[c] \in {"running", "scheduled"}
    /\ pipes[c] = NoPipe
    /\ FreePipes # {}
    /\ Len(nextPipes) < NextPipesCap
    /\ LET p == CHOOSE q \in FreePipes : \A r \in FreePipes : q <= r
       IN  /\ newPipe(c, p)
           /\ nextPipes' = IF campMessenger[c] = "email"
                           THEN Append(nextPipes, p) ELSE nextPipes
    /\ UNCHANGED << now, cfgVars, ioVars, campCursor, campSent, campLastSub, hourlySent,
                    notifs, campMsgQ, slidingStart, slidingCount, panicked,
                    retry, disp, worker, histVars >>


\* ------------------------------------------------------------ the dispatcher
\* The dispatcher reads a pipe from nextPipes and invokes NextSubscribers.
DispatchTake ==
    /\ ~panicked
    /\ disp.pc = "idle"
    /\ nextPipes # << >>
    /\ disp' = [IdleDisp EXCEPT !.pc = "begin", !.p = Head(nextPipes)]
    /\ nextPipes' = Tail(nextPipes)
    /\ UNCHANGED << now, cfgVars, ioVars, storeVars, pipes, campMsgQ, slidingStart,
                    slidingCount, panicked, pipe, waiter, sched, retry, worker,
                    histVars >>

\* processed=true: the pipe is queued again (without blocking).
\* processed=false: the sentinel that newPipe added is released.
DispatchReturn ==
    /\ ~panicked
    /\ disp.pc = "ret"
    /\ IF disp.ret = "true"
       THEN /\ nextPipes' = TryRequeue(nextPipes, disp.p)
            /\ UNCHANGED << pipe, waiter, panicked >>
       ELSE /\ WgDone(disp.p, pipe[disp.p])
            /\ UNCHANGED nextPipes
    /\ disp' = IdleDisp
    /\ UNCHANGED << now, cfgVars, ioVars, storeVars, pipes, campMsgQ, slidingStart,
                    slidingCount, sched, retry, worker, histVars >>

\* ------------------------------------------------------------ NextSubscribers
\* time.Second on the clock of ticks: the shortest duration it can tell
\* from zero.
Second == 1

\* jitter := rand.Int63n(jrange) - jrange/2, for spacing > time.Second and
\* jrange := spacing / 10 > 0; otherwise 0.
Jitters(spacing) ==
    LET jrange == spacing \div 10
    IN  IF spacing > Second /\ jrange > 0
        THEN {k - (jrange \div 2) : k \in 0..(jrange - 1)}
        ELSE {0}

\* NextSubscribers, from its start to the fetch: the hourly allowance, the
\* self-requeue when it is used up, and the fetch capped by the limit.
NextSubscribers ==
    /\ ~panicked
    /\ disp.pc = "begin"
    /\ LET p == disp.p
           c == pipe[p].camp
           rolled == HasQuota(c) /\ pipe[p].scheduledHour # HourOfDay(now)
           pv == IF rolled
                 THEN [pipe[p] EXCEPT !.scheduled = 0,
                                      !.scheduledHour = HourOfDay(now)]
                 ELSE pipe[p]
           allowed == PerHour(c) - GetCampaignHourlySent(c, now) - pv.scheduled
           limit == IF HasQuota(c) THEN Min(BatchSize, allowed) ELSE BatchSize
           subs == StoreNextSubscribers(c, limit)
           wait == Max(NextHourStart(now) - now, Second)
       IN  IF HasQuota(c) /\ allowed <= 0
           THEN /\ pipe' = [pipe EXCEPT ![p] = [pv EXCEPT !.wg = @ + 1]]
                /\ retry' = [retry EXCEPT ![p].sleeping =
                                @ \cup {[since |-> now, wake |-> now + wait]}]
                /\ disp' = [disp EXCEPT !.pc = "ret", !.ret = "false"]
                /\ UNCHANGED campCursor
           ELSE /\ pipe' = [pipe EXCEPT ![p] = pv]
                /\ campCursor' = [campCursor EXCEPT ![c] = @ + Len(subs)]
                /\ disp' = IF Len(subs) = 0
                           THEN [disp EXCEPT !.pc = "ret", !.ret = "false"]
                           ELSE [disp EXCEPT
                                   !.pc = IF HasQuota(c) THEN "recheck" ELSE "render",
                                   !.subs = subs, !.i = 0]
                /\ UNCHANGED retry
    /\ UNCHANGED << now, cfgVars, ioVars, campStatus, campSent, campLastSub, hourlySent,
                    notifs, pipes, nextPipes, campMsgQ, slidingStart, slidingCount,
                    panicked, waiter, sched, worker, histVars >>

\* Quota path, after the fetch: the allowance is computed again and the
\* spacing over the rest of the hour is derived from it.
NextSubscribersRecheck ==
    /\ ~panicked
    /\ disp.pc = "recheck"
    /\ LET p == disp.p
           c == pipe[p].camp
           left == PerHour(c) - GetCampaignHourlySent(c, now) - pipe[p].scheduled
           remaining == Max(left, Len(disp.subs))
           rest == NextHourStart(now) - now
       IN  disp' = IF left <= 0
                   THEN [disp EXCEPT !.pc = "ret", !.ret = "false", !.subs = << >>]
                   ELSE [disp EXCEPT !.pc = "render",
                                     !.spacing = rest \div remaining]
    /\ UNCHANGED << now, cfgVars, ioVars, storeVars, pipes, nextPipes, campMsgQ,
                    slidingStart, slidingCount, panicked, pipe, waiter, sched,
                    retry, worker, histVars >>

\* One turn of the loop over subs, up to the channel send: newMessage
\* renders the message (a render error skips the subscriber) and the quota
\* path computes its release time.  After the last subscriber: return true.
NextSubscribersRender ==
    /\ ~panicked
    /\ disp.pc = "render"
    /\ LET p == disp.p
           c == pipe[p].camp
       IN  IF disp.subs = << >>
           THEN /\ disp' = [disp EXCEPT !.pc = "ret", !.ret = "true"]
                /\ UNCHANGED pipe
           ELSE IF Head(disp.subs) \in badSubs
           THEN \* if err != nil { log; continue }
                /\ pipe' = [pipe EXCEPT ![p] = newMessage(@, FALSE)]
                /\ disp' = [disp EXCEPT !.subs = Tail(@), !.i = @ + 1]
           ELSE \E jitter \in Jitters(disp.spacing) :
                /\ pipe' = [pipe EXCEPT ![p] = newMessage(@, TRUE)]
                /\ disp' = [disp EXCEPT
                              !.pc = "send",
                              !.msg = [pipe |-> p, sub |-> Head(disp.subs),
                                       at |-> IF HasQuota(c)
                                              THEN now + disp.i * disp.spacing + jitter
                                              ELSE 0]]
    /\ UNCHANGED << now, cfgVars, ioVars, storeVars, pipes, nextPipes, campMsgQ,
                    slidingStart, slidingCount, panicked, waiter, sched, retry,
                    worker, histVars >>


\* The loop moves on to the next subscriber of the batch.
NextTurn == [disp EXCEPT !.pc = "render", !.subs = Tail(@), !.i = @ + 1,
                         !.msg = NoSched]

\* SendScheduled without the else that separates the two paths: the message
\* goes to schedQ and, falling through, to campMsgQ as well.
SendScheduledAndDirect ==
    LET p == disp.p
    IN  /\ ~pipe[p].schedClosed
        /\ Len(pipe[p].schedQ) < SchedQCap
        /\ Len(campMsgQ) < CampMsgQCap
        /\ pipe' = [pipe EXCEPT ![p].schedQ = Append(@, disp.msg),
                                ![p].scheduled = @ + 1,
                                ![p].wg = @ + 1]
        /\ campMsgQ' = Append(campMsgQ, [pipe |-> p, sub |-> disp.msg.sub])
        /\ disp' = NextTurn
        /\ UNCHANGED << panicked, slidingStart, slidingCount, dispatched >>

\* Quota path: p.schedQ <- scheduledMessage{msg, at} (a send on the closed
\* schedQ panics), then p.scheduled.Add(1).
SendScheduled ==
    LET p == disp.p
    IN  IF pipe[p].schedClosed
        THEN /\ panicked' = TRUE
             /\ UNCHANGED << pipe, disp, campMsgQ, slidingStart, slidingCount,
                             dispatched >>
        ELSE /\ Len(pipe[p].schedQ) < SchedQCap
             /\ pipe' = [pipe EXCEPT ![p].schedQ = Append(@, disp.msg),
                                     ![p].scheduled = @ + 1]
             /\ disp' = NextTurn
             /\ UNCHANGED << panicked, campMsgQ, slidingStart, slidingCount,
                             dispatched >>

\* Direct path: p.m.campMsgQ <- msg, then the sliding-window check: an
\* expired window is reset and the message is not counted; otherwise the
\* message is counted and, at the limit, the loop sleeps for the rest of the
\* window.
SendDirect ==
    LET p == disp.p
        diff == now - slidingStart
    IN  /\ Len(campMsgQ) < CampMsgQCap
        /\ campMsgQ' = Append(campMsgQ, [pipe |-> p, sub |-> disp.msg.sub])
        /\ dispatched' = IF HasSliding
                         THEN [dispatched EXCEPT ![now] = @ + 1]
                         ELSE dispatched
        /\ IF ~HasSliding
           THEN /\ disp' = NextTurn
                /\ UNCHANGED << slidingStart, slidingCount >>
           ELSE IF diff >= SlidingWindowDuration
           THEN /\ slidingStart' = now
                /\ slidingCount' = 0
                /\ disp' = NextTurn
           ELSE IF slidingCount + 1 >= SlidingWindowRate
           THEN /\ slidingCount' = 0
                /\ disp' = [NextTurn EXCEPT
                              !.pc = "sleep",
                              !.wake = now + (SlidingWindowDuration - diff)]
                /\ UNCHANGED slidingStart
           ELSE /\ slidingCount' = slidingCount + 1
                /\ disp' = NextTurn
                /\ UNCHANGED slidingStart
        /\ UNCHANGED << pipe, panicked >>

\* The channel send that ends the turn: schedQ with a quota, campMsgQ
\* without.
NextSubscribersSend ==
    /\ ~panicked
    /\ disp.pc = "send"
    /\ IF HasQuota(pipe[disp.p].camp) THEN SendScheduled ELSE SendDirect
    /\ UNCHANGED << now, cfgVars, ioVars, storeVars, pipes, nextPipes, waiter, sched,
                    retry, worker, pushes, pushCalls, cleanups, released >>

\* time.Sleep(wait) of the direct path's sliding window.
NextSubscribersSleep ==
    /\ ~panicked
    /\ disp.pc = "sleep"
    /\ now >= disp.wake
    /\ disp' = [disp EXCEPT !.pc = "render", !.wake = 0]
    /\ UNCHANGED << now, cfgVars, ioVars, storeVars, pipes, nextPipes, campMsgQ,
                    slidingStart, slidingCount, panicked, pipe, waiter, sched,
                    retry, worker, histVars >>

\* ------------------------------------------------------------ hourly retry
\* case <-time.After(d): select { case nextPipes <- pr: default: }
RetryFire(p) ==
    /\ ~panicked
    /\ \E r \in retry[p].sleeping :
          /\ now >= r.wake
          /\ retry' = [retry EXCEPT ![p].sleeping = @ \ {r},
                                    ![p].requeued = @ + 1]
    /\ nextPipes' = TryRequeue(nextPipes, p)
    /\ UNCHANGED << now, cfgVars, ioVars, storeVars, pipes, campMsgQ, slidingStart,
                    slidingCount, panicked, pipe, waiter, sched, disp, worker,
                    histVars >>

\* pr.wg.Done(): the retry's hold on the waitgroup is released.
RetryDone(p) ==
    /\ ~panicked
    /\ retry[p].requeued > 0
    /\ retry' = [retry EXCEPT ![p].requeued = @ - 1]
    /\ WgDone(p, pipe[p])
    /\ UNCHANGED << now, cfgVars, ioVars, storeVars, pipes, nextPipes, campMsgQ,
                    slidingStart, slidingCount, sched, disp, worker, histVars >>


\* ------------------------------------------------------------ runScheduler
\* runScheduler receiving the newest message of schedQ instead of the oldest.
SchedRecvNewest(p) ==
    /\ ~panicked
    /\ sched[p].pc = "recv"
    /\ pipe[p].schedQ # << >> \/ pipe[p].schedClosed
    /\ IF pipe[p].schedQ # << >>
       THEN /\ sched' = [sched EXCEPT ![p] = [pc |-> "wait",
                                              sm |-> pipe[p].schedQ[Len(pipe[p].schedQ)],
                                              wake |-> 0]]
            /\ pipe' = [pipe EXCEPT ![p].schedQ = SubSeq(@, 1, Len(@) - 1)]
       ELSE /\ sched' = [sched EXCEPT ![p].pc = "exit"]
            /\ UNCHANGED pipe
    /\ UNCHANGED << now, cfgVars, ioVars, storeVars, pipes, nextPipes, campMsgQ,
                    slidingStart, slidingCount, panicked, waiter, retry, disp,
                    worker, histVars >>

\* for sm := range p.schedQ: the next message, or the exit once schedQ is
\* closed and drained.
SchedRecv(p) ==
    /\ ~panicked
    /\ sched[p].pc = "recv"
    /\ pipe[p].schedQ # << >> \/ pipe[p].schedClosed
    /\ IF pipe[p].schedQ # << >>
       THEN /\ sched' = [sched EXCEPT ![p] = [pc |-> "wait",
                                              sm |-> Head(pipe[p].schedQ),
                                              wake |-> 0]]
            /\ pipe' = [pipe EXCEPT ![p].schedQ = Tail(@)]
       ELSE /\ sched' = [sched EXCEPT ![p].pc = "exit"]
            /\ UNCHANGED pipe
    /\ UNCHANGED << now, cfgVars, ioVars, storeVars, pipes, nextPipes, campMsgQ,
                    slidingStart, slidingCount, panicked, waiter, retry, disp,
                    worker, histVars >>

\* The scheduler with its stopped checks taken out.
StoppedNeverSeen(pv) == FALSE

\* if p.stopped.Load() { sm.msg.pipe.wg.Done(); continue }
StoppedLoad(pv) == pv.stopped

\* After the sleep until sm.at: a stopped pipe drops the message; otherwise
\* the sliding window is checked, counted and, at the limit, slept on.
SchedWake(p) ==
    /\ ~panicked
    /\ sched[p].pc = "wait"
    /\ now >= sched[p].sm.at
    /\ LET diff == now - slidingStart
           expired == diff >= SlidingWindowDuration
           count == (IF expired THEN 0 ELSE slidingCount) + 1
       IN  IF StoppedLoad(pipe[p])
           THEN /\ WgDone(p, pipe[p])
                /\ sched' = [sched EXCEPT ![p] = IdleSched]
                /\ UNCHANGED << slidingStart, slidingCount >>
           ELSE /\ IF ~HasSliding
                   THEN /\ sched' = [sched EXCEPT ![p].pc = "check"]
                        /\ UNCHANGED << slidingStart, slidingCount >>
                   ELSE /\ slidingStart' = IF expired THEN now ELSE slidingStart
                        /\ IF count >= SlidingWindowRate
                           THEN /\ slidingCount' = 0
                                /\ sched' = [sched EXCEPT
                                    ![p].pc = "sleep",
                                    ![p].wake = now + (SlidingWindowDuration - diff)]
                           ELSE /\ slidingCount' = count
                                /\ sched' = [sched EXCEPT ![p].pc = "check"]
                /\ UNCHANGED << pipe, waiter, panicked >>
    /\ UNCHANGED << now, cfgVars, ioVars, storeVars, pipes, nextPipes, campMsgQ, retry,
                    disp, worker, histVars >>

\* time.Sleep(wait) of the scheduler's sliding window.
SchedSleep(p) ==
    /\ ~panicked
    /\ sched[p].pc = "sleep"
    /\ now >= sched[p].wake
    /\ sched' = [sched EXCEPT ![p].pc = "check", ![p].wake = 0]
    /\ UNCHANGED << now, cfgVars, ioVars, storeVars, pipes, nextPipes, campMsgQ,
                    slidingStart, slidingCount, panicked, pipe, waiter, retry,
                    disp, worker, histVars >>

\* If the campaign was stopped during the wait, drop the message.
SchedCheck(p) ==
    /\ ~panicked
    /\ sched[p].pc = "check"
    /\ IF StoppedLoad(pipe[p])
       THEN /\ WgDone(p, pipe[p])
            /\ sched' = [sched EXCEPT ![p] = IdleSched]
       ELSE /\ sched' = [sched EXCEPT ![p].pc = "send"]
            /\ UNCHANGED << pipe, waiter, panicked >>
    /\ UNCHANGED << now, cfgVars, ioVars, storeVars, pipes, nextPipes, campMsgQ,
                    slidingStart, slidingCount, retry, disp, worker, histVars >>

\* p.m.campMsgQ <- sm.msg
SchedSend(p) ==
    /\ ~panicked
    /\ sched[p].pc = "send"
    /\ Len(campMsgQ) < CampMsgQCap
    /\ campMsgQ' = Append(campMsgQ, [pipe |-> p, sub |-> sched[p].sm.sub])
    /\ sched' = [sched EXCEPT ![p] = IdleSched]
    /\ released' = [released EXCEPT ![p][AbsHour(now)] = @ + 1]
    /\ dispatched' = IF HasSliding THEN [dispatched EXCEPT ![now] = @ + 1]
                     ELSE dispatched
    /\ UNCHANGED << now, cfgVars, ioVars, storeVars, pipes, nextPipes, slidingStart,
                    slidingCount, panicked, pipe, waiter, retry, disp, worker,
                    pushes, pushCalls, cleanups >>

\* ------------------------------------------------------------ the workers
\* A worker reads a message off campMsgQ.
WorkerRecv(w) ==
    /\ ~panicked
    /\ worker[w] = NoMsg
    /\ campMsgQ # << >>
    /\ worker' = [worker EXCEPT ![w] = Head(campMsgQ)]
    /\ campMsgQ' = Tail(campMsgQ)
    /\ UNCHANGED << now, cfgVars, ioVars, storeVars, pipes, nextPipes, slidingStart,
                    slidingCount, panicked, pipe, waiter, sched, retry, disp,
                    histVars >>

\* pipe.lastID set to the id of every successful send.
LatestID(last, id) == id

\* "updates pipe.lastID if the subscriber id is higher"
HigherID(last, id) == IF id > last THEN id ELSE last

\* Push returns.  Success: pipe.sent and pipe.lastID are updated, the hourly
\* sent count of the campaign is upserted, wg.Done().  Failure: OnError(),
\* wg.Done().
WorkerPush(w, ok) ==
    /\ ~panicked
    /\ worker[w] # NoMsg
    /\ LET p == worker[w].pipe
           s == worker[w].sub
           c == pipe[p].camp
       IN  /\ pushCalls' = [pushCalls EXCEPT ![c] = @ + 1]
           /\ IF ok
              THEN /\ pushes' = [pushes EXCEPT ![c][s] = @ + 1]
                   /\ hourlySent' = [hourlySent EXCEPT ![c][AbsHour(now)] = @ + 1]
                   /\ WgDone(p, [pipe[p] EXCEPT !.sent = @ + 1,
                                                !.lastID = HigherID(@, s)])
              ELSE /\ WgDone(p, OnError(pipe[p]))
                   /\ UNCHANGED << pushes, hourlySent >>
    /\ worker' = [worker EXCEPT ![w] = NoMsg]
    /\ UNCHANGED << now, cfgVars, ioVars, campStatus, campCursor, campSent, campLastSub,
                    notifs, pipes, nextPipes, campMsgQ, slidingStart, slidingCount,
                    sched, retry, disp, cleanups, released, dispatched >>

\* store.UpdateCampaignCounts(campID, 0, sentDelta, lastSubID)
UpdateCampaignCounts(c, sentDelta, lastSubID) ==
    /\ campSent' = [campSent EXCEPT ![c] = @ + sentDelta]
    /\ campLastSub' = [campLastSub EXCEPT ![c] = IF lastSubID > 0 THEN lastSubID ELSE @]

\* The throttled flush of a registered pipe's sent counter to storage; the
\* counter restarts from zero.
FlushCounts(p) ==
    /\ ~panicked
    /\ pipe[p].camp # 0
    /\ pipes[pipe[p].camp] = p
    /\ pipe[p].sent > 0
    /\ UpdateCampaignCounts(pipe[p].camp, pipe[p].sent, pipe[p].lastID)
    /\ pipe' = [pipe EXCEPT ![p].sent = 0]
    /\ UNCHANGED << now, cfgVars, ioVars, campStatus, campCursor, hourlySent, notifs,
                    pipes, nextPipes, campMsgQ, slidingStart, slidingCount,
                    panicked, waiter, sched, retry, disp, worker, histVars >>

\* ------------------------------------------------------------ cleanup
\* cleanup without the deferred delete: the pipe stays in m.pipes.
KeepRegistered(c) == pipes

\* defer delete(p.m.pipes, p.camp.ID)
Unregister(c) == [pipes EXCEPT ![c] = NoPipe]

\* FinalStatus that finishes running campaigns only, not scheduled ones.
FinalStatusRunningOnly(pv, status) ==
    IF pv.withErrors THEN "paused"
    ELSE IF pv.stopped THEN status
    ELSE IF status = "running" THEN "finished"
    ELSE status

\* FinalStatus without the return for a manually stopped pipe.
FinalStatusOfStopped(pv, status) ==
    IF pv.withErrors THEN "paused"
    ELSE IF status \in {"running", "scheduled"} THEN "finished"
    ELSE status

\* The status cleanup leaves in storage: paused after too many errors; the
\* status as it is for a manually stopped pipe; finished for a running or
\* scheduled campaign whose subscribers are exhausted.
FinalStatus(pv, status) ==
    IF pv.withErrors THEN "paused"
    ELSE IF pv.stopped THEN status
    ELSE IF status \in {"running", "scheduled"} THEN "finished"
    ELSE status

\* The notifications of cleanup: "Too many errors" with the auto-pause,
\* none for a manually stopped pipe, the final status otherwise.
FinalNotifs(pv, status) ==
    IF pv.withErrors
    THEN {[camp |-> pv.camp, status |-> "paused", reason |-> "Too many errors"]}
    ELSE IF pv.stopped THEN {}
    ELSE {[camp |-> pv.camp, status |-> FinalStatus(pv, status), reason |-> ""]}

\* p.wg.Wait() has returned: cleanup closes schedQ, flushes the counts, sets
\* the campaign's final status, notifies the admin and unregisters the pipe.
cleanup(p) ==
    /\ ~panicked
    /\ waiter[p] = "released"
    /\ LET c == pipe[p].camp
       IN  /\ pipe' = [pipe EXCEPT ![p].schedClosed = TRUE]
           /\ UpdateCampaignCounts(c, pipe[p].sent, pipe[p].lastID)
           /\ campStatus' = [campStatus EXCEPT ![c] = FinalStatus(pipe[p], @)]
           /\ notifs' = notifs \cup FinalNotifs(pipe[p], campStatus[c])
           /\ pipes' = Unregister(c)
    /\ waiter' = [waiter EXCEPT ![p] = "done"]
    /\ cleanups' = [cleanups EXCEPT ![p] = @ + 1]
    /\ UNCHANGED << now, cfgVars, ioVars, campCursor, hourlySent, nextPipes, campMsgQ,
                    slidingStart, slidingCount, panicked, sched, retry, disp,
                    worker, pushes, pushCalls, released, dispatched >>

\* ------------------------------------------------------------ the system
Next ==
    \/ Tick
    \/ \E c \in Camps : APIPause(c)
    \/ \E c \in Camps : APICancel(c)
    \/ \E c \in Camps : APIResume(c)
    \/ \E c \in Camps : Scan(c)
    \/ DispatchTake
    \/ NextSubscribers
    \/ NextSubscribersRecheck
    \/ NextSubscribersRender
    \/ NextSubscribersSend
    \/ NextSubscribersSleep
    \/ DispatchReturn
    \/ \E p \in PipeIds : RetryFire(p)
    \/ \E p \in PipeIds : RetryDone(p)
    \/ \E p \in PipeIds : SchedRecv(p)
    \/ \E p \in PipeIds : SchedWake(p)
    \/ \E p \in PipeIds : SchedSleep(p)
    \/ \E p \in PipeIds : SchedCheck(p)
    \/ \E p \in PipeIds : SchedSend(p)
    \/ \E w \in Workers : WorkerRecv(w)
    \/ \E w \in Workers : \E ok \in BOOLEAN : WorkerPush(w, ok)
    \/ \E p \in PipeIds : FlushCounts(p)
    \/ \E p \in PipeIds : cleanup(p)

Spec == Init /\ [][Next]_vars

\* ------------------------------------------------------------ fair runs
\* A campaign without daily quota, no sliding window, no error threshold; the
\* admin never stops it and every Push succeeds.  Every goroutine that can
\* run eventually runs.
LiveInit ==
    /\ InitWith({1}, {"running", "scheduled"}, {0}, {0}, {FALSE}, {"email"},
                {{}, {2}}, {NoInterval}, {NumSubs})
    /\ MailIdle
    /\ BounceIdle

Dispatcher ==
    \/ DispatchTake
    \/ NextSubscribers
    \/ NextSubscribersRender
    \/ NextSubscribersSend
    \/ DispatchReturn

LiveNext ==
    \/ Tick
    \/ \E c \in Camps : Scan(c)
    \/ Dispatcher
    \/ \E w \in Workers : WorkerRecv(w)
    \/ \E w \in Workers : WorkerPush(w, TRUE)
    \/ \E p \in PipeIds : FlushCounts(p)
    \/ \E p \in PipeIds : cleanup(p)

LiveSpec ==
    /\ LiveInit
    /\ [][LiveNext]_vars
    /\ \A c \in {1} : WF_vars(Scan(c))
    /\ WF_vars(Dispatcher)
    /\ \A w \in Workers : WF_vars(WorkerRecv(w))
    /\ \A w \in Workers : WF_vars(WorkerPush(w, TRUE))
    /\ \A p \in PipeIds : WF_vars(cleanup(p))

\* ------------------------------------------------------------ long runs
\* A campaign with a daily quota of 24 (one message an hour) over LongTime
\* ticks; the admin pauses and resumes, every Push succeeds.
RetryInit ==
    /\ InitWith({1}, {"running"}, {24}, {0}, {FALSE}, {"email"}, {{}},
                {NoInterval}, {NumSubs})
    /\ MailIdle
    /\ BounceIdle

RetryNext ==
    \/ LongTick
    \/ \E c \in Camps : APIPause(c)
    \/ \E c \in Camps : APIResume(c)
    \/ \E c \in Camps : Scan(c)
    \/ DispatchTake
    \/ NextSubscribers
    \/ NextSubscribersRecheck
    \/ NextSubscribersRender
    \/ NextSubscribersSend
    \/ DispatchReturn
    \/ \E p \in PipeIds : RetryFire(p)
    \/ \E p \in PipeIds : RetryDone(p)
    \/ \E p \in PipeIds : SchedRecv(p)
    \/ \E p \in PipeIds : SchedWake(p)
    \/ \E p \in PipeIds : SchedCheck(p)
    \/ \E p \in PipeIds : SchedSend(p)
    \/ \E w \in Workers : WorkerRecv(w)
    \/ \E w \in Workers : WorkerPush(w, TRUE)
    \/ \E p \in PipeIds : cleanup(p)

RetrySpec == RetryInit /\ [][RetryNext]_vars

\* ------------------------------------------------------------ send windows
\* A campaign with a send_interval, with and without a daily quota; every
\* Push succeeds and the admin leaves the campaign alone.
IntervalInit ==
    /\ InitWith({1}, {"running"}, {0, 24}, {0}, {FALSE}, {"email"}, {{}},
                Windows, {NumSubs})
    /\ MailIdle
    /\ BounceIdle

IntervalNext ==
    \/ Tick
    \/ \E c \in Camps : Scan(c)
    \/ Dispatcher
    \/ NextSubscribersRecheck
    \/ \E p \in PipeIds : RetryFire(p)
    \/ \E p \in PipeIds : RetryDone(p)
    \/ \E p \in PipeIds : SchedRecv(p)
    \/ \E p \in PipeIds : SchedWake(p)
    \/ \E p \in PipeIds : SchedCheck(p)
    \/ \E p \in PipeIds : SchedSend(p)
    \/ \E w \in Workers : WorkerRecv(w)
    \/ \E w \in Workers : WorkerPush(w, TRUE)
    \/ \E p \in PipeIds : cleanup(p)

IntervalSpec == IntervalInit /\ [][IntervalNext]_vars

\* ------------------------------------------------------------ long lists
\* A campaign with one subscriber more than schedQ has room for,
LongList == SchedQCap + 1

\* with no daily quota or with a quota that allows all of them in one hour;
\* every Push succeeds and the admin leaves the campaign alone.
QueueInit ==
    /\ InitWith({1}, {"running"}, {0, 24 * LongList}, {0}, {FALSE}, {"email"},
                {{}}, {NoInterval}, {LongList})
    /\ MailIdle
    /\ BounceIdle

QueueSpec == QueueInit /\ [][IntervalNext]_vars

\* ------------------------------------------------------------ whole batches
\* A campaign with no daily quota or with BatchSize messages an hour, one of
\* whose first two subscribers has a message that fails to render; every
\* Push succeeds and the admin leaves the campaign alone.
BatchInit ==
    /\ InitWith({1}, {"running"}, {0, 24 * BatchSize}, {0}, {FALSE}, {"email"},
                {{1}, {2}}, {NoInterval}, {NumSubs})
    /\ MailIdle
    /\ BounceIdle

BatchSpec == BatchInit /\ [][IntervalNext]_vars

\* ------------------------------------------------------------ more workers
\* A campaign without daily quota sent by MoreWorkers; a Push succeeds or
\* fails, errors never stop the pipe, and the admin leaves the campaign alone.
ConcInit ==
    /\ InitWith({1}, {"running"}, {0}, {0}, {FALSE}, {"email"}, {{}},
                {NoInterval}, {NumSubs})
    /\ MailIdle
    /\ BounceIdle

ConcNext ==
    \/ \E c \in Camps : Scan(c)
    \/ Dispatcher
    \/ \E w \in MoreWorkers : WorkerRecv(w)
    \/ \E w \in MoreWorkers : \E ok \in BOOLEAN : WorkerPush(w, ok)
    \/ \E p \in PipeIds : FlushCounts(p)
    \/ \E p \in PipeIds : cleanup(p)

ConcSpec == ConcInit /\ [][ConcNext]_vars

\* ------------------------------------------------------------ the window
\* The sliding-window block of runScheduler (task p: the scheduler of pipe p)
\* and of the direct path of NextSubscribers (task NoPipe: the dispatcher),
\* one read or write of m.slidingStart and m.slidingCount at a step.  No lock
\* is taken, so a task enters whenever it has a message to account for.
slidingCheck(t) ==
    /\ HasSliding
    /\ LET sl == slide[t]
           go(pc) == slide' = [slide EXCEPT ![t].pc = pc]
       IN  CASE sl.pc = "idle" ->
                \* diff := time.Since(p.m.slidingStart)
                /\ slide' = [slide EXCEPT ![t] = [IdleSlide EXCEPT
                                !.pc = "expired", !.diff = now - slidingStart]]
                /\ UNCHANGED << slidingStart, slidingCount >>
             [] sl.pc = "expired" ->
                \* if diff >= Duration { slidingStart = now; slidingCount = 0 }
                \* (the direct path then continues with the next subscriber)
                IF sl.diff >= SlidingWindowDuration
                THEN /\ slidingStart' = now
                     /\ slidingCount' = 0
                     /\ go(IF t = NoPipe THEN "idle" ELSE "load")
                ELSE /\ go("load")
                     /\ UNCHANGED << slidingStart, slidingCount >>
             [] sl.pc = "load" ->
                \* p.m.slidingCount++: the read
                /\ slide' = [slide EXCEPT ![t].pc = "store",
                                          ![t].count = slidingCount]
                /\ UNCHANGED << slidingStart, slidingCount >>
             [] sl.pc = "store" ->
                \* p.m.slidingCount++: the write
                /\ slidingCount' = sl.count + 1
                /\ go("limit")
                /\ UNCHANGED slidingStart
             [] sl.pc = "limit" ->
                \* if slidingCount >= Rate { slidingCount = 0; time.Sleep(wait) }
                IF slidingCount >= SlidingWindowRate
                THEN /\ slidingCount' = 0
                     /\ slide' = [slide EXCEPT
                            ![t].pc = "sleep",
                            ![t].wake = now + (SlidingWindowDuration - sl.diff)]
                     /\ UNCHANGED slidingStart
                ELSE /\ go("idle")
                     /\ UNCHANGED << slidingStart, slidingCount >>
             [] sl.pc = "sleep" ->
                /\ now >= sl.wake
                /\ slide' = [slide EXCEPT ![t] = IdleSlide]
                /\ UNCHANGED << slidingStart, slidingCount >>
    /\ UNCHANGED << now, cfgVars, storeVars, pipes, nextPipes, campMsgQ, panicked,
                    pipe, waiter, sched, retry, disp, worker, histVars, mailVars,
                    bounceVars, app, set, closing >>

\* The sliding window is configured.
WindowInit ==
    /\ InitWith({1}, {"running"}, {0}, {0}, {TRUE}, {"email"}, {{}},
                {NoInterval}, {NumSubs})
    /\ MailIdle
    /\ BounceIdle

WindowNext ==
    \/ Tick
    \/ \E t \in DOMAIN slide : slidingCheck(t)

WindowSpec == WindowInit /\ [][WindowNext]_vars

\* ------------------------------------------------------------ settings reload
\* App.UpdateSettings, after the settings are stored, one read or write of the
\* manager's and the App's shared state at a step.  app.messengers is what the
\* engine's tasks find: "open", "closed" (Close() was called on every
\* messenger, the registry still names them) or "cleared" (the registry is
\* empty).

\* Manager.HasRunningCampaigns: some pipe is registered.
HasRunningCampaigns == \E c \in Camps : pipes[c] # NoPipe

\* if !a.manager.HasRunningCampaigns() { reloadMessengers() } else
\* handleSettingsRestart
UpdateSettings ==
    /\ app.pc = "idle"
    /\ app' = [app EXCEPT !.pc = IF HasRunningCampaigns THEN "restart"
                                                         ELSE "close"]
    /\ UNCHANGED << engineVars, mailVars, bounceVars, slide, set, closing >>

reloadMessengers ==
    /\ CASE app.pc = "close" ->
            \* for _, m := range a.messengers { m.Close() }
            app' = [app EXCEPT !.pc = "build", !.messengers = "closed"]
         [] app.pc = "build" ->
            \* the new messengers are built from the stored settings; an
            \* error returns to UpdateSettings, which goes on to
            \* handleSettingsRestart
            \E ok \in BOOLEAN :
                app' = [app EXCEPT !.pc = IF ok THEN "clear" ELSE "restart"]
         [] app.pc = "clear" ->
            \* a.manager.ClearMessengers()
            app' = [app EXCEPT !.pc = "add", !.messengers = "cleared"]
         [] app.pc = "add" ->
            \* AddMessenger for each (an error returns like the one above);
            \* a.messengers = newMsgrs; return OK
            \E ok \in BOOLEAN :
                app' = IF ok
                       THEN [app EXCEPT !.pc = "idle", !.messengers = "open"]
                       ELSE [app EXCEPT !.pc = "restart"]
         [] OTHER -> FALSE
    /\ UNCHANGED << engineVars, mailVars, bounceVars, slide, set, closing >>

\* handleSettingsRestart that only ever sets the flag: without a running
\* campaign the request ends with nothing arranged.
handleSettingsRestartFlagOnly ==
    /\ app.pc = "restart"
    /\ app' = [app EXCEPT !.pc = "idle",
                          !.needsRestart = @ \/ HasRunningCampaigns]
    /\ UNCHANGED << engineVars, mailVars, bounceVars, slide, set, closing >>

\* With a running campaign needsRestart is set and reported; without one a
\* goroutine is started that sends SIGHUP to the reload channel half a
\* second later (the reload of the process itself is outside this model).
handleSettingsRestart ==
    /\ app.pc = "restart"
    /\ app' = IF HasRunningCampaigns
              THEN [app EXCEPT !.pc = "idle", !.needsRestart = TRUE]
              ELSE [app EXCEPT !.pc = "idle", !.sighup = TRUE]
    /\ UNCHANGED << engineVars, mailVars, bounceVars, slide, set, closing >>

\* The engine's tasks beside a settings request.  The scan is left out while
\* the registry is empty: newPipe then cancels the campaign, which no
\* property stated on this specification depends on.
ReloadNext ==
    \/ Tick
    \/ \E c \in Camps : app.messengers # "cleared" /\ Scan(c)
    \/ Dispatcher
    \/ \E w \in Workers : WorkerRecv(w)
    \/ \E w \in Workers : WorkerPush(w, TRUE)
    \/ \E p \in PipeIds : FlushCounts(p)
    \/ \E p \in PipeIds : cleanup(p)
    \/ UpdateSettings
    \/ reloadMessengers
    \/ handleSettingsRestart

ReloadSpec == LiveInit /\ [][ReloadNext]_vars

\* ------------------------------------------------------------ shutdown
\* Manager.Close(): the scan and the dispatcher take up nothing new, every
\* registered pipe is told to stop, and then campMsgQ is closed.
Close ==
    /\ ~panicked
    /\ CASE closing = "no" ->
            /\ pipe' = [p \in PipeIds |->
                            IF \E c \in Camps : pipes[c] = p
                            THEN Stop(pipe[p], FALSE) ELSE pipe[p]]
            /\ closing' = "stopped"
         [] closing = "stopped" ->
            /\ closing' = "closed"
            /\ UNCHANGED pipe
         [] OTHER -> FALSE
    /\ UNCHANGED << now, cfgVars, storeVars, pipes, nextPipes, campMsgQ, slidingStart,
                    slidingCount, panicked, waiter, sched, retry, disp, worker,
                    histVars, mailVars, bounceVars, slide, app, set >>

\* p.m.campMsgQ <- msg on the closed channel, by the scheduler of pipe p or
\* (p = NoPipe) by the direct path of NextSubscribers: the send panics, also
\* when it was blocked on the full channel at the time of the close.
SendOnClosed(p) ==
    /\ ~panicked
    /\ closing = "closed"
    /\ IF p = NoPipe
       THEN disp.pc = "send" /\ ~HasQuota(pipe[disp.p].camp)
       ELSE sched[p].pc = "send"
    /\ panicked' = TRUE
    /\ UNCHANGED << now, cfgVars, ioVars, storeVars, pipes, nextPipes, campMsgQ,
                    slidingStart, slidingCount, pipe, waiter, sched, retry, disp,
                    worker, histVars >>

\* The engine's tasks beside a shutdown; on the open channel the senders
\* send as before.
CloseNext ==
    \/ Tick
    \/ \E c \in Camps : closing = "no" /\ Scan(c)
    \/ closing = "no" /\ DispatchTake
    \/ NextSubscribers
    \/ NextSubscribersRecheck
    \/ NextSubscribersRender
    \/ closing # "closed" /\ NextSubscribersSend
    \/ /\ closing = "closed"
       /\ disp.pc = "send"
       /\ HasQuota(pipe[disp.p].camp)
       /\ NextSubscribersSend
    \/ DispatchReturn
    \/ \E p \in PipeIds : RetryFire(p)
    \/ \E p \in PipeIds : RetryDone(p)
    \/ \E p \in PipeIds : SchedRecv(p)
    \/ \E p \in PipeIds : SchedWake(p)
    \/ \E p \in PipeIds : SchedCheck(p)
    \/ \E p \in PipeIds : closing # "closed" /\ SchedSend(p)
    \/ \E w \in Workers : WorkerRecv(w)
    \/ \E w \in Workers : WorkerPush(w, TRUE)
    \/ \E p \in PipeIds : cleanup(p)
    \/ Close
    \/ \E p \in PipeIds \cup {NoPipe} : SendOnClosed(p)

CloseSpec == IntervalInit /\ [][CloseNext]_vars

\* ------------------------------------------------------------ messenger names
\* A name is a sequence of pieces: the letters "email", the same in capitals,
\* a hyphen, a blank.  The names a request can carry:
Names ==
    UNION {[1..n -> {"email", "EMAIL", "-", " "}] : n \in 0..NameLen}

\* The map of taken names when it starts out empty: "email" is not reserved.
NoReservedNames == {}

\* names := map[string]bool{emailMsgr: true}
ReservedNames == {<< "email" >>}

\* reAlphaNum.ReplaceAllString(strings.ToLower(strings.TrimSpace(s.Name)), "-"),
\* and "email-" put in front of a name that is not empty and lacks it.
smtpName(raw) ==
    LET inked == {k \in 1..Len(raw) : raw[k] # " "}
        first == CHOOSE k \in inked : \A j \in inked : k <= j
        last == CHOOSE k \in inked : \A j \in inked : k >= j
        TrimSpace == IF inked = {} THEN << >> ELSE SubSeq(raw, first, last)
        ToLower == [k \in 1..Len(TrimSpace) |->
                        IF TrimSpace[k] = "EMAIL" THEN "email" ELSE TrimSpace[k]]
        name == [k \in 1..Len(ToLower) |->
                    IF ToLower[k] \in {"email", "-"} THEN ToLower[k] ELSE "-"]
        HasPrefix == Len(name) >= 2 /\ name[1] = "email" /\ name[2] = "-"
    IN  IF name # << >> /\ ~HasPrefix THEN << "email", "-" >> \o name ELSE name

\* reAlphaNum.ReplaceAllString(strings.ToLower(m.Name), "")
messengerName(raw) ==
    LET ToLower == [k \in 1..Len(raw) |->
                        IF raw[k] = "EMAIL" THEN "email" ELSE raw[k]]
    IN  SelectSeq(ToLower, LAMBDA t : t \in {"email", "-"})

\* App.UpdateSettings from c.Bind to the store of the settings, one block of
\* the request at a step: the loop over set.SMTP, then the loop over
\* set.Messengers; a duplicate or an empty messenger name, no enabled SMTP
\* block, or one of the other checks ends the request with an error.
Sanitize ==
    /\ CASE set.pc = "idle" ->
            set' = [NoRequest EXCEPT !.pc = "smtp", !.names = ReservedNames]
         [] set.pc = "smtp" ->
            \/ /\ set.i < MaxBlocks
               /\ \E raw \in Names, enabled \in BOOLEAN :
                    LET name == smtpName(raw)
                    IN  IF name # << >> /\ name \in set.names
                        THEN set' = [set EXCEPT !.pc = "rejected"]
                        ELSE set' = [set EXCEPT
                                !.i = @ + 1,
                                !.has = @ \/ enabled,
                                !.names = IF name # << >> THEN @ \cup {name}
                                                          ELSE @,
                                !.smtp = Append(@, name)]
            \/ set' = [set EXCEPT !.i = 0,
                                  !.pc = IF set.has THEN "messengers"
                                                    ELSE "rejected"]
         [] set.pc = "messengers" ->
            \/ /\ set.i < MaxBlocks
               /\ \E raw \in Names :
                    LET name == messengerName(raw)
                    IN  IF name \in set.names \/ Len(name) = 0
                        THEN set' = [set EXCEPT !.pc = "rejected"]
                        ELSE set' = [set EXCEPT
                                !.i = @ + 1,
                                !.names = @ \cup {name},
                                !.messengers = Append(@, name)]
            \/ \E valid \in BOOLEAN :
                    set' = [set EXCEPT !.i = 0,
                                      !.pc = IF valid THEN "stored"
                                                      ELSE "rejected"]
         [] OTHER -> FALSE
    /\ UNCHANGED << engineVars, mailVars, bounceVars, slide, app, closing >>

\* No campaign matters to the request: one paused campaign, the engine at
\* rest.
SettingsInit ==
    /\ InitWith({1}, {"paused"}, {0}, {0}, {FALSE}, {"email"}, {{}},
                {NoInterval}, {NumSubs})
    /\ MailIdle
    /\ BounceIdle

SettingsSpec == SettingsInit /\ [][Sanitize]_vars

\* ------------------------------------------------------------ Emailer.Push
\* Server.Username: an account that is an address, or one that is not.
Usernames == {[local |-> "user", domain |-> "gmail.com"],
              [local |-> "apikey", domain |-> ""]}

\* The From of a message: display name and address.
Froms == {[name |-> "Alice", addr |-> [local |-> "alice", domain |-> "example.org"]],
          [name |-> "Alice", addr |-> [local |-> "user", domain |-> "gmail.com"]]}

\* The headers the manager attaches to a campaign message.
CampaignHeaders ==
    [h \in {"X-Listmonk-Campaign", "X-Listmonk-Subscriber",
            "List-Unsubscribe", "List-Unsubscribe-Post"} |->
        CASE h = "X-Listmonk-Campaign" -> "campaign-uuid"
          [] h = "X-Listmonk-Subscriber" -> "subscriber-uuid"
          [] h = "List-Unsubscribe" -> "<unsubscribe-url>"
          [] OTHER -> "List-Unsubscribe=One-Click"]

\* The models.Message values given to Push.
Messages ==
    {[From |-> f, To |-> [local |-> "bob", domain |-> "x.com"],
      Subject |-> "Hello", ContentType |-> ct, Headers |-> CampaignHeaders] :
        f \in Froms, ct \in {"plain", "html"}}

\* header := make(map[string]string); header["From"] = fromAddr; ...
\* An address header is the pair that mail.Address.String() formats.
header(sender, m) ==
    [h \in {"From", "To", "Subject", "MIME-Version", "Content-Type", "Date",
            "Message-ID"} |->
        CASE h = "From" -> [name |-> "Listmonk Admin", addr |-> sender]
          [] h = "To" -> [name |-> "", addr |-> m.To]
          [] h = "Subject" -> m.Subject
          [] h = "MIME-Version" -> "1.0"
          [] h = "Content-Type" -> IF m.ContentType = "plain"
                                   THEN "text/plain; charset=\"UTF-8\""
                                   ELSE "text/html; charset=\"UTF-8\""
          [] h = "Date" -> "time.Now()"
          [] OTHER -> "<time.Now().listmonk@host>"]

\* c.Mail with the From address of the message as its argument.
MailArgFromMessage(pv) == pv.m.From.addr

\* c.Mail(senderEmail): the argument of MAIL FROM.
MailArg(pv) == pv.senderEmail

\* The callers of Push that hold an open SMTP connection to server s.
OpenConns(s) ==
    {k \in Pushers : pusher[k].srv = s
                     /\ pusher[k].pc \in {"auth", "mail", "rcpt", "data", "quit"}}

\* return err (the deferred c.Close() closes an open connection).  Of the
\* call, the commands that reached the server stay on record.
PushFail(k, pv) ==
    pusher' = [pusher EXCEPT ![k] = [IdlePusher EXCEPT !.srv = pv.srv,
                                                       !.mailFrom = pv.mailFrom,
                                                       !.rcptTo = pv.rcptTo,
                                                       !.err = TRUE]]

\* Push(m), up to the connection: the server is picked, the credentials and
\* the headers are prepared, the message is composed.
PushBegin(k) ==
    /\ pusher[k].pc = "idle"
    /\ \E m \in Messages : \E s \in Servers :
          pusher' = [pusher EXCEPT ![k] =
                        [IdlePusher EXCEPT !.pc = "dial", !.srv = s, !.m = m,
                                           !.senderEmail = srvUsername[s],
                                           !.header = header(srvUsername[s], m)]]
    /\ UNCHANGED << engineVars, sideVars, srvUsername, bounceVars >>

\* tls.Dial and smtp.NewClient on port 465, smtp.Dial and StartTLS otherwise:
\* a new connection for this call.
PushDial(k, ok) ==
    /\ pusher[k].pc = "dial"
    /\ IF ok THEN pusher' = [pusher EXCEPT ![k].pc = "auth"]
       ELSE PushFail(k, pusher[k])
    /\ UNCHANGED << engineVars, sideVars, srvUsername, bounceVars >>

\* c.Auth(auth)
PushAuth(k, ok) ==
    /\ pusher[k].pc = "auth"
    /\ IF ok THEN pusher' = [pusher EXCEPT ![k].pc = "mail"]
       ELSE PushFail(k, pusher[k])
    /\ UNCHANGED << engineVars, sideVars, srvUsername, bounceVars >>

\* c.Mail(senderEmail): the MAIL FROM command goes out, and may be refused.
PushMail(k, ok) ==
    /\ pusher[k].pc = "mail"
    /\ LET pv == [pusher[k] EXCEPT !.mailFrom = MailArg(pusher[k])]
       IN  IF ok THEN pusher' = [pusher EXCEPT ![k] = [pv EXCEPT !.pc = "rcpt"]]
           ELSE PushFail(k, pv)
    /\ UNCHANGED << engineVars, sideVars, srvUsername, bounceVars >>

\* c.Rcpt(recipientEmail)
PushRcpt(k, ok) ==
    /\ pusher[k].pc = "rcpt"
    /\ LET pv == [pusher[k] EXCEPT !.rcptTo = pusher[k].m.To]
       IN  IF ok THEN pusher' = [pusher EXCEPT ![k] = [pv EXCEPT !.pc = "data"]]
           ELSE PushFail(k, pv)
    /\ UNCHANGED << engineVars, sideVars, srvUsername, bounceVars >>

\* c.Data(); w.Write([]byte(message)); w.Close(): the server has the message.
PushData(k, ok) ==
    /\ pusher[k].pc = "data"
    /\ IF ok THEN pusher' = [pusher EXCEPT ![k].pc = "quit", ![k].delivered = TRUE]
       ELSE PushFail(k, pusher[k])
    /\ UNCHANGED << engineVars, sideVars, srvUsername, bounceVars >>

\* c.Quit(); return nil (the deferred c.Close() closes the connection).
PushQuit(k) ==
    /\ pusher[k].pc = "quit"
    /\ pusher' = [pusher EXCEPT ![k] = IdlePusher]
    /\ UNCHANGED << engineVars, sideVars, srvUsername, bounceVars >>

\* A messenger over servers with either kind of username; the engine is at
\* rest and NumPushers callers push messages concurrently.
PushInit ==
    /\ InitWith({1}, {"paused"}, {0}, {0}, {FALSE}, {"email"}, {{}},
                {NoInterval}, {NumSubs})
    /\ srvUsername \in [Servers -> Usernames]
    /\ pusher = [k \in Pushers |-> IdlePusher]
    /\ BounceIdle

PushNext ==
    \/ \E k \in Pushers : PushBegin(k)
    \/ \E k \in Pushers : \E ok \in BOOLEAN : PushDial(k, ok)
    \/ \E k \in Pushers : \E ok \in BOOLEAN : PushAuth(k, ok)
    \/ \E k \in Pushers : \E ok \in BOOLEAN : PushMail(k, ok)
    \/ \E k \in Pushers : \E ok \in BOOLEAN : PushRcpt(k, ok)
    \/ \E k \in Pushers : \E ok \in BOOLEAN : PushData(k, ok)
    \/ \E k \in Pushers : PushQuit(k)

PushSpec == PushInit /\ [][PushNext]_vars

\* ------------------------------------------------------------ classifyBounce
\* Enhanced status codes 5.x.x and 4.x.x, by class and text.
NoCode == [class |-> 0, text |-> ""]
Codes == {[class |-> 5, text |-> "5.1.1"], [class |-> 4, text |-> "4.2.0"]}

\* A line of a bounce message: the enhanced status code it holds, whether
\* the code stands where reSMTPStatus matches it (at the start of the line,
\* after an optional "Status:" and an optional three-digit reply code), and
\* the phrase of reHardBounce it holds.
BodyLines ==
    {l \in [code : Codes \cup {NoCode}, atStart : BOOLEAN,
            phrase : {"", "user unknown"}] : l.code = NoCode => ~l.atStart}
Bodies == UNION {[1..n -> BodyLines] : n \in 0..MaxLines}

\* reSMTPStatus.FindAllSubmatch(b, -1): (?m)^(?:Status:\s*)?(?:\d{3}\s+)?([45]\.\d+\.\d+)
reSMTPStatus(b) == SelectSeq(b, LAMBDA l : l.code # NoCode /\ l.atStart)
\* reHardBounce.FindSubmatch(b)
reHardBounce(b) == SelectSeq(b, LAMBDA l : l.phrase # "")

\* classifyBounce(b): the first status code matched decides; without one,
\* the first hard-bounce phrase; without one, soft.
classifyBounce(b) ==
    IF reSMTPStatus(b) # << >>
    THEN LET status == Head(reSMTPStatus(b)).code
         IN  IF status.class = 5
             THEN [type |-> "hard", reason |-> "smtp_status=" \o status.text]
             ELSE [type |-> "soft", reason |-> "smtp_status=" \o status.text]
    ELSE IF reHardBounce(b) # << >>
    THEN [type |-> "hard", reason |-> "body_match=" \o Head(reHardBounce(b)).phrase]
    ELSE [type |-> "soft", reason |-> "default"]

\* ------------------------------------------------------------ POP.Scan
\* A version-4 UUID and a well-formed UUID of another version (1).
ValidV4 == "550e8400-e29b-41d4-a716-446655440000"
OtherUUID == "6ba7b810-9dad-11d1-80b4-00c04fd430c8"

\* uuid.FromString(s) returns no error: s is a well-formed UUID; the parser
\* does not look at the version.
FromString(s) == s \in {ValidV4, OtherUUID}

\* isValidUUID(s)
isValidUUID(s) == s # "" /\ FromString(s)

\* "Status: 5.1.1" and "user unknown".
StatusAndPhrase ==
    << [code |-> [class |-> 5, text |-> "5.1.1"], atStart |-> TRUE,
        phrase |-> "user unknown"] >>

\* A message on the server: the X-Listmonk-Campaign and X-Listmonk-Subscriber
\* headers of its last part, the first 36-character token that the regexps
\* of headerLookups find in the raw message, the first UUID near a campaign
\* keyword, and its lines.
BounceMails ==
    [hdrCampaign : {"", ValidV4, OtherUUID, "not-a-uuid"},
     hdrSubscriber : {"", ValidV4},
     token : {"", ValidV4},
     near : {"", ValidV4},
     body : {StatusAndPhrase}]

\* One message with every body.
ClassifyMails ==
    [hdrCampaign : {ValidV4}, hdrSubscriber : {ValidV4}, token : {""}, near : {""},
     body : Bodies]

\* The loop over headerLookups for l: the header, else the regexp match in
\* the raw message, else (campaign only) the UUID near a keyword; a value
\* that is no valid UUID becomes "".  (strings.TrimSpace leaves these
\* values, which carry no blanks, as they are.)
hdr(l, mail) ==
    LET inHeader == IF l = "X-Listmonk-Campaign" THEN mail.hdrCampaign
                    ELSE mail.hdrSubscriber
        matched == IF inHeader = "" THEN mail.token ELSE inHeader
        v == IF inHeader = "" /\ l = "X-Listmonk-Campaign" /\ matched = ""
             THEN mail.near ELSE matched
    IN  IF isValidUUID(v) THEN v ELSE ""

\* models.Bounce{Type: bounceType, CampaignUUID: ..., SubscriberUUID: ..., Meta: meta}
Bounce(mail) ==
    [Type |-> classifyBounce(mail.body).type,
     CampaignUUID |-> hdr("X-Listmonk-Campaign", mail),
     SubscriberUUID |-> hdr("X-Listmonk-Subscriber", mail),
     ClassifyReason |-> classifyBounce(mail.body).reason]

\* Scan(limit, ch), up to the download loop: connect, authenticate, count.
ScanStart(limit) ==
    /\ scan.pc = "idle"
    /\ LET count == Len(mailbox)
       IN  scan' = IF count = 0 THEN scan
                   ELSE [IdleScan EXCEPT
                           !.pc = "retr", !.id = 1,
                           !.count = IF limit > 0 /\ count > limit THEN limit
                                     ELSE count]
    /\ UNCHANGED << engineVars, sideVars, mailVars, mailbox, ch, recorded,
                    delivered, removed >>

\* One message of the download loop: RetrRaw, message.Read, the lookups,
\* the classification.  An error ends the scan.
ScanRetr(ok) ==
    /\ scan.pc = "retr"
    /\ scan' = IF ok
               THEN [scan EXCEPT !.pc = "emit",
                                 !.bounce = Bounce(mailbox[scan.id].mail)]
               ELSE [scan EXCEPT !.pc = "quit"]
    /\ UNCHANGED << engineVars, sideVars, mailVars, mailbox, ch, recorded,
                    delivered, removed >>

\* select { case ch <- models.Bounce{...}: default: }, then the next id.
ScanEmit ==
    /\ scan.pc = "emit"
    /\ IF Len(ch) < ChCap
       THEN /\ ch' = Append(ch, scan.bounce)
            /\ delivered' = delivered \cup {mailbox[scan.id].id}
       ELSE UNCHANGED << ch, delivered >>
    /\ scan' = IF scan.id < scan.count
               THEN [scan EXCEPT !.pc = "retr", !.id = @ + 1]
               ELSE [scan EXCEPT !.pc = "dele", !.id = 1]
    /\ UNCHANGED << engineVars, sideVars, mailVars, mailbox, recorded, removed >>

\* One message of the delete loop: c.Dele(id).  An error ends the scan.
ScanDele(ok) ==
    /\ scan.pc = "dele"
    /\ scan' = IF ~ok THEN [scan EXCEPT !.pc = "quit"]
               ELSE [scan EXCEPT !.marked = @ \cup {mailbox[scan.id].id},
                                 !.id = @ + 1,
                                 !.pc = IF scan.id < scan.count THEN "dele"
                                        ELSE "quit"]
    /\ UNCHANGED << engineVars, sideVars, mailVars, mailbox, ch, recorded,
                    delivered, removed >>

\* defer c.Quit(): the server removes the messages marked by Dele.
ScanQuit ==
    /\ scan.pc = "quit"
    /\ mailbox' = SelectSeq(mailbox, LAMBDA e : e.id \notin scan.marked)
    /\ removed' = removed \cup scan.marked
    /\ scan' = IdleScan
    /\ UNCHANGED << engineVars, sideVars, mailVars, ch, recorded, delivered >>

\* The reader of the channel hands the next Bounce to Core.RecordBounce,
\* which validates the uuids again and writes the row.
RecordBounce ==
    /\ ch # << >>
    /\ LET b == Head(ch)
           subscriberUUID == IF b.SubscriberUUID # "" /\ ~FromString(b.SubscriberUUID)
                             THEN "" ELSE b.SubscriberUUID
           campaignUUID == IF b.CampaignUUID # "" /\ ~FromString(b.CampaignUUID)
                           THEN "" ELSE b.CampaignUUID
       IN  recorded' = recorded \cup {[subscriber_uuid |-> subscriberUUID,
                                       campaign_uuid |-> campaignUUID,
                                       type |-> b.Type]}
    /\ ch' = Tail(ch)
    /\ UNCHANGED << engineVars, sideVars, mailVars, mailbox, scan, delivered, removed >>

\* The mailbox holds the messages ms, numbered in order.
ScanInitWith(ms) ==
    /\ InitWith({1}, {"paused"}, {0}, {0}, {FALSE}, {"email"}, {{}},
                {NoInterval}, {NumSubs})
    /\ MailIdle
    /\ mailbox = [i \in 1..Len(ms) |-> [id |-> i, mail |-> ms[i]]]
    /\ scan = IdleScan
    /\ ch = << >>
    /\ recorded = {}
    /\ delivered = {}
    /\ removed = {}

\* A mailbox of up to MaxMails bounce messages.
ScanInit == \E ms \in UNION {[1..n -> BounceMails] : n \in 0..MaxMails} :
                ScanInitWith(ms)

ScanNext ==
    \/ \E limit \in 0..MaxMails : ScanStart(limit)
    \/ \E ok \in BOOLEAN : ScanRetr(ok)
    \/ ScanEmit
    \/ \E ok \in BOOLEAN : ScanDele(ok)
    \/ ScanQuit
    \/ RecordBounce

ScanSpec == ScanInit /\ [][ScanNext]_vars

\* A mailbox of one message, over every body of up to MaxLines lines.
ClassifyInit == \E m \in ClassifyMails : ScanInitWith(<< m >>)

ClassifySpec == ClassifyInit /\ [][ScanNext]_vars

\* ------------------------------------------------------------ properties
PipesOf(c) == {p \in PipeIds : pipe[p].camp = c}

\* C1: for a campaign with a daily quota Q, in every UTC hour the number of
\* messages a pipe forwards from schedQ to campMsgQ is at most ceil(Q/24).
C1_HourlyRelease ==
    \A p \in PipeIds : \A h \in Hours :
        (pipe[p].camp # 0 /\ HasQuota(pipe[p].camp))
            => released[p][h] <= PerHour(pipe[p].camp)

C3_CleanupExactlyOnce ==
    \A p \in PipeIds :
        /\ cleanups[p] <= 1
        /\ panicked => waiter[p] \in {"none", "done"}

TooManyErrors(c) == [camp |-> c, status |-> "paused", reason |-> "Too many errors"]

C5_NoFetchAfterStop ==
    [][\A p \in PipeIds :
          (pipe[p].stopped /\ disp.p = p /\ disp.pc = "begin")
              => campCursor' = campCursor]_vars

\* The subscribers of campaign c whose message renders.
Rendering(c) == NumSubs - Cardinality(badSubs)

\* C6 as stated: a never-stopped campaign without quota whose sends all
\* succeed ends with cleanup run, NumSubs Push calls, a stored sent count of
\* NumSubs and the status finished.
C6_AllSubscribersPushed ==
    <>[](\A c \in Camps :
            /\ \E p \in PipesOf(c) : cleanups[p] = 1
            /\ pushCalls[c] = NumSubs
            /\ campSent[c] = NumSubs
            /\ campStatus[c] = "finished")

\* C6, amended: such a campaign ends with cleanup run, one Push call for
\* each subscriber whose message renders, that number as the stored sent
\* count, and the status finished.
C6_DirectRunFinishes ==
    <>[](\A c \in Camps :
            /\ \E p \in PipesOf(c) : cleanups[p] = 1
            /\ pushCalls[c] = Rendering(c)
            /\ \A s \in Subs : pushes[c][s] = IF s \in badSubs THEN 0 ELSE 1
            /\ campSent[c] = Rendering(c)
            /\ campStatus[c] = "finished")

\* A campaign with a subscriber whose message does not render has finished.
C6_Witness ==
    \E c \in Camps :
        /\ badSubs # {}
        /\ \E p \in PipesOf(c) : cleanups[p] = 1 /\ ~pipe[p].stopped
        /\ pushCalls[c] = Rendering(c)
        /\ campSent[c] = Rendering(c)
        /\ campStatus[c] = "finished"

LivePipes(c) == {p \in PipesOf(c) : waiter[p] \in {"waiting", "released"}}

\* C7 as stated: a campaign is running or scheduled exactly when it has a
\* registered pipe.
C7_RunningIffPipe ==
    \A c \in Camps :
        campStatus[c] \in {"running", "scheduled"} <=> pipes[c] # NoPipe

\* C7, amended: a campaign has at most one live pipe (created and not yet
\* cleaned up), and a pipe is live exactly while m.pipes registers it for
\* its campaign.
C7_OneLivePipe ==
    \A c \in Camps :
        /\ Cardinality(LivePipes(c)) <= 1
        /\ \A p \in PipesOf(c) : p \in LivePipes(c) <=> pipes[c] = p
        /\ pipes[c] # NoPipe => pipes[c] \in PipesOf(c)

\* The campaign's first pipe has been cleaned up and its second is live.
C7_Witness ==
    \E c \in Camps : \E p, q \in PipesOf(c) :
        /\ waiter[p] = "done"
        /\ q \in LivePipes(c)
        /\ pipes[c] = q

RECURSIVE DispatchedIn(_, _)
\* The messages put on campMsgQ in the n ticks from t on.
DispatchedIn(t, n) ==
    IF n = 0 THEN 0 ELSE dispatched[t] + DispatchedIn(t + 1, n - 1)

\* C8: with the sliding window active, in every interval of
\* SlidingWindowDuration at most SlidingWindowRate + Concurrency messages
\* are put on campMsgQ.
C8_SlidingWindowLimit ==
    HasSliding =>
        \A t \in Ticks :
            t + SlidingWindowDuration - 1 <= ClockEnd
                => DispatchedIn(t, SlidingWindowDuration)
                       <= SlidingWindowRate + Concurrency

InNextPipes(p) == \E i \in 1..Len(nextPipes) : nextPipes[i] = p

\* C9: a retry that NextSubscribers started with allowed <= 0 ends its wait
\* no earlier than the start of the next UTC hour and no earlier than the
\* shortest wait, and when it ends the pipe is on nextPipes.
C9_RequeuedAtNextHour ==
    [][\A p \in PipeIds : \A r \in retry[p].sleeping :
          r \notin retry'[p].sleeping
              => /\ now >= NextHourStart(r.since)
                 /\ now >= r.since + Second
                 /\ InNextPipes(p)']_vars

\* C10: cleanup has not run on a pipe that is not stopped while storage
\* still holds subscribers of the campaign that were never fetched.
C10_NoCleanupBeforeExhaustion ==
    \A p \in PipeIds :
        (cleanups[p] > 0 /\ ~pipe[p].stopped)
            => campCursor[pipe[p].camp] = NumSubs

\* C11: a NextSubscribers call on a campaign with a send_interval, made at a
\* time outside the window, takes the self-requeue branch of a used-up
\* hourly allowance: it fetches no subscriber, puts no message on a queue
\* and starts the hourly retry.
C11_OutsideWindowSelfRequeue ==
    [][\A p \in PipeIds :
          (/\ disp.p = p /\ disp.pc = "begin" /\ disp'.pc # "begin"
           /\ campSendInterval[pipe[p].camp] # NoInterval
           /\ ~InWindow(pipe[p].camp, now))
              => /\ campCursor' = campCursor
                 /\ campMsgQ' = campMsgQ
                 /\ pipe'[p].schedQ = pipe[p].schedQ
                 /\ retry'[p].sleeping # retry[p].sleeping]_vars

\* strings.Contains(u, "@"): the username looks like an address.
LooksLikeAddress(u) == u.domain # ""

\* C12: whenever a Push through a server whose username is an address u@d
\* has issued MAIL FROM, the argument of the command was u@d, whatever the
\* From of the message.
C12_EnvelopeSender ==
    \A k \in Pushers :
        (pusher[k].mailFrom # NoAddr /\ LooksLikeAddress(srvUsername[pusher[k].srv]))
            => pusher[k].mailFrom = srvUsername[pusher[k].srv]

\* A message whose From is another address than the username was delivered
\* through a server whose username is an address.
C12_Witness ==
    \E k \in Pushers :
        /\ pusher[k].delivered
        /\ LooksLikeAddress(srvUsername[pusher[k].srv])
        /\ pusher[k].m.From.addr # srvUsername[pusher[k].srv]
        /\ pusher[k].mailFrom = srvUsername[pusher[k].srv]

\* C13: a message delivered through a server whose username is the address
\* u has, when its From does not contain u, a From header of the original
\* display name with the address u and a Reply-To header equal to the
\* original From; when its From contains u, the From header is the original
\* From.
C13_FromRewrite ==
    \A k \in Pushers :
        LET pv == pusher[k]
            u == srvUsername[pv.srv]
        IN  (pv.delivered /\ LooksLikeAddress(u))
                => IF pv.m.From.addr # u
                   THEN /\ pv.header["From"] = [name |-> pv.m.From.name, addr |-> u]
                        /\ "Reply-To" \in DOMAIN pv.header
                        /\ pv.header["Reply-To"] = pv.m.From
                   ELSE pv.header["From"] = pv.m.From

\* C14: every campaign message that Push delivers carries the
\* campaign-attached headers of the message it was given, with their values.
C14_CampaignHeaders ==
    \A k \in Pushers :
        pusher[k].delivered
            => \A h \in DOMAIN pusher[k].m.Headers :
                  /\ h \in DOMAIN pusher[k].header
                  /\ pusher[k].header[h] = pusher[k].m.Headers[h]

\* C15: at any time the SMTP connections that concurrent Push calls hold
\* open to one server number at most the server's max_conns.
C15_PoolBound ==
    \A s \in Servers : Cardinality(OpenConns(s)) <= MaxConns

\* The status codes and the hard-bounce phrases that the body b holds.
HeldCodes(b) == {b[i].code : i \in DOMAIN b} \ {NoCode}
HeldPhrases(b) == {b[i].phrase : i \in DOMAIN b} \ {""}

\* C16: the Bounce built for a message follows a strict precedence: if the
\* body holds a status code, one of its codes alone decides (5.x.x hard,
\* 4.x.x soft, reason smtp_status=<code>), also when a hard-bounce phrase
\* is present; a phrase decides only when the body holds no code (hard,
\* reason body_match=<phrase>); otherwise the result is (soft, default).
C16_StatusBeforeKeywords ==
    scan.pc = "emit" =>
        LET b == mailbox[scan.id].mail.body
            r == scan.bounce
        IN  IF HeldCodes(b) # {}
            THEN \E c \in HeldCodes(b) :
                    /\ r.ClassifyReason = "smtp_status=" \o c.text
                    /\ r.Type = IF c.class = 5 THEN "hard" ELSE "soft"
            ELSE IF HeldPhrases(b) # {}
            THEN /\ r.Type = "hard"
                 /\ \E w \in HeldPhrases(b) : r.ClassifyReason = "body_match=" \o w
            ELSE r.Type = "soft" /\ r.ClassifyReason = "default"

\* C17: if a 5.x.x status code occurs anywhere in the body, the Bounce
\* built for the message is hard, whatever stands around the code.
C17_Class5IsHard ==
    (scan.pc = "emit"
        /\ \E c \in HeldCodes(mailbox[scan.id].mail.body) : c.class = 5)
            => scan.bounce.Type = "hard"

\* C18: every Bounce that Scan emits and every row that RecordBounce writes
\* has, in each uuid field, a version-4 UUID or the empty string.
C18_UUIDsV4OrEmpty ==
    /\ \A i \in DOMAIN ch :
          /\ ch[i].CampaignUUID \in {"", ValidV4}
          /\ ch[i].SubscriberUUID \in {"", ValidV4}
    /\ \A row \in recorded :
          /\ row.campaign_uuid \in {"", ValidV4}
          /\ row.subscriber_uuid \in {"", ValidV4}

\* C19: for a message whose X-Listmonk-Campaign header is present but is no
\* valid UUID and whose body holds a valid UUID near a campaign keyword, the
\* Bounce carries the UUID of the body as its campaign uuid.
C19_BodyUUIDAfterBadHeader ==
    LET mail == mailbox[scan.id].mail
    IN  (scan.pc = "emit" /\ mail.hdrCampaign = "not-a-uuid" /\ mail.near = ValidV4)
            => scan.bounce.CampaignUUID = mail.near

\* C20: every Bounce built for a downloaded message is put on the channel,
\* and no message has been deleted from the server without its Bounce having
\* been put on the channel.
C20_DeliveredBeforeDelete ==
    /\ [](removed \subseteq delivered)
    /\ [][(scan.pc = "emit" /\ scan'.pc # "emit")
              => ch' = Append(ch, scan.bounce)]_vars

\* C21: when the scan calls newPipe for a campaign whose messenger is not
\* registered, the campaign's status becomes cancelled, no pipe is built or
\* registered, no scheduler and no wg.Wait/cleanup goroutine is started, and
\* (newPipe having returned an error) nothing is put on nextPipes; such a
\* campaign never has a pipe.
C21_UnknownMessengerCancelled ==
    /\ [](\A c \in Camps :
            campMessenger[c] = "unknown"
                => pipes[c] = NoPipe /\ PipesOf(c) = {})
    /\ [][\A c \in Camps :
            (campMessenger[c] = "unknown" /\ Scan(c))
                => /\ campStatus'[c] = "cancelled"
                   /\ UNCHANGED << pipes, pipe, sched, waiter, nextPipes >>]_vars

\* The scan has met a running campaign with an unknown messenger: it is
\* cancelled and no pipe exists.
C21_Witness ==
    \E c \in Camps :
        /\ campMessenger[c] = "unknown"
        /\ campStatus[c] = "cancelled"
        /\ pipes[c] = NoPipe
        /\ \A p \in PipeIds : waiter[p] = "none" /\ sched[p].pc = "none"
        /\ nextPipes = << >>

\* C23: a message the scheduler holds while the pipe is stopped (taken from
\* schedQ after the stop, or stopped during the wait) is dropped at the next
\* stopped check: it is not put on campMsgQ, the waitgroup counter drops by
\* exactly one, and the scheduler forgets the message.
C23_StoppedMessageDropped ==
    [][\A p \in PipeIds :
          (/\ sched[p].pc \in {"wait", "check"}
           /\ pipe[p].stopped
           /\ sched'[p] # sched[p])
              => /\ campMsgQ' = campMsgQ
                 /\ released' = released
                 /\ pipe'[p].wg = pipe[p].wg - 1
                 /\ sched'[p] = IdleSched]_vars

\* In the first hour a stopped pipe has enqueued more messages than its
\* scheduler has forwarded, holds or still has in schedQ: one was dropped.
C23_Witness ==
    \E p \in PipeIds :
        /\ pipe[p].stopped
        /\ ~panicked
        /\ AbsHour(now) = 0
        /\ sched[p].pc = "recv"
        /\ pipe[p].scheduled > released[p][0] + Len(pipe[p].schedQ)

\* C24: Stop is idempotent and stopped is monotone: a Stop call leaves the
\* pipe stopped, a second Stop call, with either argument, changes nothing
\* (Stop(true) after Stop(false) leaves withErrors false), and no step
\* changes stopped or withErrors of a stopped pipe.
C24_StopIdempotent ==
    /\ [](\A p \in PipeIds : \A first, second \in BOOLEAN :
            LET once == Stop(pipe[p], first)
            IN  /\ once.stopped
                /\ Stop(once, second) = once)
    /\ [][\A p \in PipeIds :
            pipe[p].stopped
                => /\ pipe'[p].stopped
                   /\ pipe'[p].withErrors = pipe[p].withErrors]_vars

\* A pipe was stopped by the admin and afterwards by OnError at the error
\* threshold: withErrors is still false.
C24_Witness ==
    \E p \in PipeIds :
        /\ pipe[p].stopped
        /\ ~pipe[p].withErrors
        /\ cfgMaxSendErrors > 0
        /\ pipe[p].errors >= cfgMaxSendErrors

\* C25: cleanup of a pipe with stopped = true and withErrors = false leaves
\* the status of every campaign and the notifications as they are; it closes
\* schedQ, adds the pipe's sent count to the stored count, stores the pipe's
\* last subscriber id, and unregisters the pipe.
C25_CleanupOfStoppedPipe ==
    [][\A p \in PipeIds :
          (/\ cleanups'[p] = cleanups[p] + 1
           /\ pipe[p].stopped
           /\ ~pipe[p].withErrors)
              => LET c == pipe[p].camp
                 IN  /\ campStatus' = campStatus
                     /\ notifs' = notifs
                     /\ pipe'[p].schedClosed
                     /\ campSent'[c] = campSent[c] + pipe[p].sent
                     /\ pipe[p].lastID > 0 => campLastSub'[c] = pipe[p].lastID
                     /\ pipes'[c] = NoPipe
                     /\ UNCHANGED << campCursor, hourlySent, nextPipes,
                                     campMsgQ >>]_vars

\* A pipe that the admin stopped after it had sent a message was cleaned up
\* while the campaign, resumed, is running: the status is still running and
\* no notification was sent.
C25_Witness ==
    \E p \in PipeIds :
        /\ cleanups[p] = 1
        /\ pipe[p].stopped
        /\ ~pipe[p].withErrors
        /\ pipe[p].schedClosed
        /\ pipe[p].sent > 0
        /\ campSent[pipe[p].camp] >= pipe[p].sent
        /\ campLastSub[pipe[p].camp] >= pipe[p].lastID
        /\ campStatus[pipe[p].camp] = "running"
        /\ pipes[pipe[p].camp] = NoPipe
        /\ notifs = {}

\* C29: in the clock's first UTC hour, when every message was enqueued for
\* the current hour, pipe.scheduled of the only, never-stopped pipe of a
\* campaign with a quota equals the number of messages the pipe has enqueued
\* less those recorded as sent in the hourly sent count.  The enqueued
\* messages are those in schedQ, held by the scheduler, in campMsgQ, held by
\* a worker, or already given to Push.
C29_ScheduledIsUnsent ==
    \A p \in PipeIds :
        (/\ pipe[p].camp # 0
         /\ HasQuota(pipe[p].camp)
         /\ PipesOf(pipe[p].camp) = {p}
         /\ ~pipe[p].stopped
         /\ AbsHour(now) = 0)
            => LET c == pipe[p].camp
                   enqueued ==
                       Len(pipe[p].schedQ)
                       + (IF sched[p].pc \in {"wait", "sleep", "check", "send"}
                          THEN 1 ELSE 0)
                       + Len(SelectSeq(campMsgQ, LAMBDA m : m.pipe = p))
                       + Cardinality({w \in DOMAIN worker : worker[w].pipe = p})
                       + pushCalls[c]
               IN  pipe[p].scheduled = enqueued - GetCampaignHourlySent(c, now)

\* C28: within one pipe, messages enter campMsgQ in ascending order of
\* subscriber id, in the direct path and in the quota path, over several
\* batches: when every Push succeeds, a message put on campMsgQ has a higher
\* subscriber id than every message of the pipe that is on campMsgQ, is
\* held by a worker, or was pushed before.
C28_AscendingIntoCampMsgQ ==
    [][\A p \in PipeIds :
          (/\ Len(campMsgQ') = Len(campMsgQ) + 1
           /\ campMsgQ'[Len(campMsgQ')].pipe = p)
              => LET s == campMsgQ'[Len(campMsgQ')].sub
                 IN  /\ \A i \in DOMAIN campMsgQ :
                           campMsgQ[i].pipe = p => campMsgQ[i].sub < s
                     /\ \A w \in DOMAIN worker :
                           worker[w].pipe = p => worker[w].sub < s
                     /\ \A t \in DOMAIN pushes[pipe[p].camp] :
                           pushes[pipe[p].camp][t] > 0 => t < s]_vars

\* Direct path: the first subscriber was pushed, and the second, of the
\* first batch, and the third, of the second batch, are on campMsgQ in that
\* order.
C28_Witness ==
    \E c \in Camps :
        /\ ~HasQuota(c)
        /\ pushes[c][1] = 1
        /\ Len(campMsgQ) = 2
        /\ campMsgQ[1].sub = 2
        /\ campMsgQ[2].sub = 3

\* C30: in the quota path NextSubscribers never blocks on schedQ: whenever it
\* is about to enqueue a scheduled message, schedQ holds fewer messages than
\* its capacity of 2 * BatchSize.
C30_SchedQHasRoom ==
    (disp.pc = "send" /\ HasQuota(pipe[disp.p].camp))
        => Len(pipe[disp.p].schedQ) < SchedQCap

C26_WindowUpdatesSerialized ==
    /\ [](Cardinality({t \in DOMAIN slide :
                slide[t].pc \in {"expired", "load", "store", "limit"}}) <= 1)
    /\ [][\A t \in DOMAIN slide :
            (slide[t].pc = "store" /\ slide'[t].pc = "limit")
                => slidingCount' = slidingCount + 1]_vars
\* C22: a settings reload never races with sending.  No step closes the
\* messengers or removes them from the registry while a campaign pipe is
\* registered or a worker holds a message it is about to Push, and a request
\* answered while a campaign runs sets needs_restart and leaves the messengers
\* alone.
C22_ReloadNeverRacesSend ==
    /\ [][(app'.messengers # app.messengers /\ app'.messengers # "open")
            => /\ ~HasRunningCampaigns
               /\ \A w \in DOMAIN worker : worker[w] = NoMsg]_vars
    /\ [][(app.pc = "restart" /\ app'.pc = "idle" /\ HasRunningCampaigns)
            => /\ app'.needsRestart
               /\ app'.messengers = app.messengers]_vars

\* C31: when rendering the message of one subscriber fails, that subscriber
\* is skipped and nothing else changes: the pipe (its error counter, its
\* waitgroup count, its scheduled counter, its stopped flag) and the queues
\* are as before, and the loop goes on with the rest of the batch, whose
\* next renderable subscriber gets a message.
C31_RenderErrorSkipsOnly ==
    [][(/\ disp.pc = "render"
        /\ disp.subs # << >>
        /\ disp' # disp)
       => IF Head(disp.subs) \in badSubs
          THEN /\ pipe' = pipe
               /\ campMsgQ' = campMsgQ
               /\ disp'.pc = "render"
               /\ disp'.p = disp.p
               /\ disp'.subs = Tail(disp.subs)
          ELSE /\ disp'.pc = "send"
               /\ disp'.msg.sub = Head(disp.subs)
               /\ pipe'[disp.p].wg = pipe[disp.p].wg + 1]_vars

\* A batch whose first subscriber failed to render and was skipped, while the
\* message of the next one is at the channel send; once on the quota path.
C31_Witness ==
    /\ disp.pc = "send"
    /\ disp.msg.sub = 2
    /\ disp.i = 1
    /\ 1 \in badSubs
    /\ HasQuota(pipe[disp.p].camp)
    /\ pipe[disp.p].wg = 2
    /\ pipe[disp.p].scheduled = 0

\* C32: Scan deletes exactly the messages it downloaded, ids 1..count with
\* count capped by a positive limit, and only after all of them have been
\* processed; a Scan that fails deletes nothing.  No message is marked for
\* deletion while the download loop runs, and what the closing Quit removes
\* from the mailbox is either nothing or every downloaded message.
C32_DeletesExactlyDownloaded ==
    /\ [](scan.pc \in {"retr", "emit"} => scan.marked = {})
    /\ [][(scan.pc = "quit" /\ scan'.pc = "idle")
            => \/ removed' = removed
               \/ removed' = removed \cup {mailbox[i].id : i \in 1..scan.count}]_vars

\* C33: after cleanup has run for a pipe no task uses the pipe any more: no
\* NextSubscribers call is under way on it, its waitgroup is not added to,
\* and neither the dispatcher nor the hourly retry puts it on nextPipes.
C33_NoUseAfterCleanup ==
    /\ [](\A p \in PipeIds :
            cleanups[p] > 0 => ~(disp.p = p /\ disp.pc # "idle"))
    /\ [][\A p \in PipeIds :
            cleanups[p] > 0
                => /\ pipe'[p].wg <= pipe[p].wg
                   /\ Len(pipe'[p].schedQ) <= Len(pipe[p].schedQ)
                   /\ InNextPipes(p)' => InNextPipes(p)]_vars

\* C34: settings that UpdateSettings accepts never hold two messengers of one
\* name: the names of the named SMTP blocks and of the postback messengers
\* taken so far, and so those of every stored request, are pairwise distinct
\* and none is the reserved name "email".
C34_MessengerNamesDistinct ==
    LET named == SelectSeq(set.smtp, LAMBDA n : n # << >>) \o set.messengers
    IN  /\ \A j, k \in 1..Len(named) : named[j] = named[k] => j = k
        /\ \A k \in 1..Len(named) : named[k] # << "email" >>

\* A stored request with two named SMTP blocks and two postback messengers,
\* one block named by the letters alone and one messenger whose name had
\* capitals.
C34_Witness ==
    /\ set.pc = "stored"
    /\ Len(set.smtp) = 2
    /\ Len(set.messengers) = 2
    /\ << "email", "-", "email" >> \in {set.smtp[k] : k \in 1..2}
    /\ << >> \notin {set.smtp[k] : k \in 1..2}
    /\ << "email", "email" >> \in {set.messengers[k] : k \in 1..2}

\* C35: the waitgroup count of a pipe is the creation sentinel, while it is
\* not released, plus the pending holds of the hourly retry plus the messages
\* that newMessage created and that are not finished yet (on schedQ, with the
\* scheduler, at the dispatcher's send, on campMsgQ or with a worker); it is
\* never negative, so no message and no hold is released twice.
C35_WaitgroupCountsInFlight ==
    \A p \in PipeIds :
        LET On(q) == Cardinality({k \in DOMAIN q : q[k].pipe = p})
            holds == Cardinality(retry[p].sleeping) + retry[p].requeued
            created == On(pipe[p].schedQ) + On(campMsgQ) + On(worker)
                        + (IF sched[p].sm.pipe = p THEN 1 ELSE 0)
                        + (IF disp.msg.pipe = p THEN 1 ELSE 0)
        IN  /\ pipe[p].wg >= 0
            /\ pipe[p].wg - holds - created \in {0, 1}

\* C36: every subscriber that storage hands to a NextSubscribers call gets a
\* message enqueued by that call unless its rendering fails: the re-check of
\* the allowance after the fetch keeps the fetched batch, and the send of a
\* rendered message puts it on schedQ (quota path) or on campMsgQ.
C36_FetchedAreEnqueued ==
    [][/\ (disp.pc = "recheck" /\ disp' # disp)
            => /\ disp'.pc = "render"
               /\ disp'.subs = disp.subs
       /\ (disp.pc = "send" /\ disp'.pc # "send")
            => \/ pipe'[disp.p].schedQ = Append(pipe[disp.p].schedQ, disp.msg)
               \/ \E k \in DOMAIN campMsgQ' :
                     /\ campMsgQ'[k].sub = disp.msg.sub
                     /\ Len(campMsgQ') = Len(campMsgQ) + 1]_vars

\* C37: cleanup never changes the status of a campaign that storage holds as
\* cancelled, neither to finished nor to paused.
C37_CleanupKeepsCancelled ==
    [][\A p \in PipeIds :
          (/\ cleanups'[p] = cleanups[p] + 1
           /\ campStatus[pipe[p].camp] = "cancelled")
              => campStatus'[pipe[p].camp] = "cancelled"]_vars

\* C38: no task sends on campMsgQ after Close has closed it: once the
\* channel is closed no scheduler goroutine stands past its stopped check at
\* the send, and no direct-path NextSubscribers stands at its send.
C38_NoSendAfterClose ==
    closing = "closed"
        => /\ \A p \in PipeIds : sched[p].pc # "send"
           /\ ~(disp.pc = "send" /\ ~HasQuota(pipe[disp.p].camp))

\* C39: a settings request that has stored the settings ends in one of three
\* ways: reloadMessengers succeeded and the manager holds the new messengers;
\* or needsRestart is set because a campaign is running; or the reload of
\* the application is scheduled.  A failed reloadMessengers never ends the
\* request: it goes on to handleSettingsRestart.
C39_ReloadOrRestart ==
    [][/\ (app.pc # "idle" /\ app'.pc = "idle")
            => \/ app.pc = "add" /\ app'.messengers = "open"
               \/ app.pc = "restart" /\ HasRunningCampaigns /\ app'.needsRestart
               \/ app.pc = "restart" /\ ~HasRunningCampaigns /\ app'.sighup
       /\ (app.pc \in {"build", "add"} /\ app'.pc # app.pc /\ app'.messengers # "open")
            => app'.pc \in {"clear", "restart"}]_vars

\* A request whose reloadMessengers failed after the old messengers were
\* closed has ended with the reload of the application scheduled.
C39_Witness ==
    /\ app.pc = "idle"
    /\ app.messengers \in {"closed", "cleared"}
    /\ app.sighup
    /\ ~app.needsRestart

====
